--------------------------- MODULE ExtractProofs ---------------------------
(***************************************************************************)
(* Proofs about burst_downloader_extract, the blocking request of the tail *)
(* and burst_downloader_fetch_cd_ranges, for every size of the archive and *)
(* of the parts, every place of the directory and every limit on parallel  *)
(* range requests.                                                         *)
(***************************************************************************)
EXTENDS Extract, CdFetchProofs

(***************************************************************************)
(* The inductive invariant: the archive, the tail request, the ranges and  *)
(* the driver.                                                             *)
(***************************************************************************)

ArchiveOK ==
  /\ archive_size \in Nat \ {0} /\ archive_size \in ArchiveSizes
  /\ central_dir_offset \in 1..(archive_size - 1)
  /\ cd_end \in (central_dir_offset + 1)..(archive_size - 1)
  /\ cd_end >= initial_start

\* The context is there while main waits, and request_complete is only set
\* by a callback that had the mutex.
TailInv ==
  /\ tail_main = "start" => tail_request = "none" /\ ~request_complete
  /\ tail_main \in {"test", "waiting", "reading"} =>
       tail_context = "allocated" /\ tail_request # "none"
  /\ request_complete => tail_request \in {"finishing", "finished"}
  /\ tail_main = "succeeded" => request_complete /\ tail_error = 0

RangeTypes ==
  /\ range_main \in {"loop", "starting", "waiting", "returned"}
  /\ next_range_to_start \in 0..total_ranges
  /\ ranges_in_flight \in 0..max_concurrent
  /\ range_cancel \in BOOLEAN
  /\ range_error = IF range_cancel THEN -1 ELSE 0

Drawn == 0..(next_range_to_start - 1)

\* A range that was drawn from the counter is in one place.
RangesApart ==
  /\ range_running \subseteq Drawn /\ range_starting \subseteq Drawn
  /\ range_buffers \subseteq Drawn
  /\ range_running \cap range_starting = {}
  /\ range_main = "starting" =>
       range_idx \in Drawn /\ range_idx \notin range_running \cup range_starting

RangeFlight ==
  ranges_in_flight = Cardinality(range_running) + Cardinality(range_starting)
                       + (IF range_main = "starting" THEN 1 ELSE 0)

\* No range that was drawn is lost unless there was an error.
NoRangeLost ==
  ~range_cancel =>
    \A i \in Drawn : \/ i \in range_running \cup range_starting \cup range_buffers
                     \/ range_main = "starting" /\ range_idx = i

RangesReached ==
  /\ range_main \in {"waiting", "returned"} /\ ~range_cancel /\ ranges_in_flight = 0 =>
       next_range_to_start = total_ranges
  /\ range_main = "returned" => ranges_in_flight = 0

RangeInv == RangeTypes /\ RangesApart /\ RangeFlight /\ NoRangeLost /\ RangesReached

\* The archive fits the tail buffer or has more than one part: then the
\* single-part path is only taken for what the tail holds.
TailOrParts == archive_size <= TAIL_SIZE \/ archive_size > part_size

DriverTypes ==
  /\ stage \in {"tail", "eocd", "partial", "hybrid", "ranges", "parse", "extract",
               "concurrent", "returned"}
  /\ cd_data \subseteq Offsets
  /\ segments \subseteq [archive_offset : Offsets, size : 1..archive_size]
  /\ fed \subseteq Offsets \X Offsets
  /\ result \in {0, -1}

\* The tail was received, and the buffer the parser is given is complete.
StagesInOrder ==
  /\ stage \notin {"tail", "returned"} => tail_main = "succeeded"
  /\ stage = "parse" /\ central_dir_offset < initial_start =>
       central_dir_offset..(cd_end - 1) \subseteq cd_data
  /\ stage \in {"extract", "concurrent"} => central_dir_offset..(cd_end - 1) \subseteq cd_data

\* What is in memory when a stage begins.
SegmentsKnown ==
  /\ segments \subseteq {Segment(archive_size, central_dir_offset)}
  /\ stage \in {"parse", "extract"} => segments = RangeSegments(central_dir_offset, initial_start)
  /\ stage \in {"tail", "eocd", "partial", "ranges"} => segments = {}
  /\ stage = "concurrent" =>
       segments = RangeSegments(central_dir_offset, initial_start)
                    \cup TailSegment(central_dir_offset, initial_start, initial_size)

FedInPlace ==
  /\ stage # "returned" => fed = {} /\ result = -1
  /\ TailOrParts =>
       /\ \A f \in fed : f[1] = f[2]
       /\ result = 0 => \A b \in 0..(central_dir_offset - 1) : <<b, b>> \in fed

DriverInv == DriverTypes /\ StagesInOrder /\ SegmentsKnown /\ FedInPlace

ExtractInv == ArchiveOK /\ TailInv /\ RangeInv /\ DriverInv

LEMMA ArchiveFixed ==
  ASSUME UNCHANGED archive
  PROVE  /\ UNCHANGED <<archive_size, central_dir_offset, cd_end, initial_start, initial_size>>
         /\ UNCHANGED <<num_parts, Parts, cd_ranges, total_ranges, RangeIndexes, Offsets>>
         /\ ArchiveOK' = ArchiveOK /\ TailOrParts' = TailOrParts
<1>1. UNCHANGED <<archive_size, central_dir_offset, cd_end>>
  BY DEF archive
<1>2. UNCHANGED <<initial_start, num_parts, Offsets>>
  BY <1>1 DEF initial_start, num_parts, Offsets
<1>3. UNCHANGED <<Parts, cd_ranges, initial_size>>
  BY <1>1, <1>2 DEF Parts, cd_ranges, initial_size
<1>4. UNCHANGED total_ranges
  BY <1>3 DEF total_ranges
<1>5. UNCHANGED RangeIndexes
  BY <1>4 DEF RangeIndexes
<1> QED
  BY <1>1, <1>2, <1>3, <1>4, <1>5 DEF ArchiveOK, TailOrParts

(***************************************************************************)
(* burst_downloader_fetch_cd_ranges.                                       *)
(***************************************************************************)

LEMMA RangeFacts ==
  ASSUME ArchiveOK
  PROVE  /\ initial_start \in 0..(archive_size - 1)
         /\ IsFiniteSet(cd_ranges)
         /\ total_ranges \in Nat
         /\ total_ranges = IF central_dir_offset >= initial_start
                           THEN 0
                           ELSE LastPart(initial_start) - FirstPart(central_dir_offset) + 1
         /\ RangeIndexes = 0..(total_ranges - 1)
<1>1. initial_start \in 0..(archive_size - 1) /\ initial_start \in Nat /\ central_dir_offset \in Nat
  BY TailRange DEF ArchiveOK, initial_start
<1>2. /\ IsFiniteSet(cd_ranges)
      /\ total_ranges = IF central_dir_offset >= initial_start
                        THEN 0
                        ELSE LastPart(initial_start) - FirstPart(central_dir_offset) + 1
  BY <1>1, RangesCounted DEF cd_ranges, total_ranges
<1>3. total_ranges \in Nat
  BY <1>2, FS_CardinalityType DEF total_ranges
<1> QED
  BY <1>1, <1>2, <1>3 DEF RangeIndexes

LEMMA RangeSets ==
  ASSUME ArchiveOK, RangeInv
  PROVE  /\ Drawn \subseteq RangeIndexes
         /\ IsFiniteSet(range_running) /\ IsFiniteSet(range_starting)
         /\ Cardinality(range_running) \in Nat /\ Cardinality(range_starting) \in Nat
         /\ Cardinality(range_running) = 0 <=> range_running = {}
         /\ Cardinality(range_starting) = 0 <=> range_starting = {}
<1>1. next_range_to_start \in 0..total_ranges /\ total_ranges \in Nat
  BY RangeFacts DEF RangeInv, RangeTypes
<1>2. Drawn \subseteq RangeIndexes
  BY <1>1, RangeFacts DEF Drawn
<1>3. next_range_to_start - 1 \in Int
  BY <1>1
<1>4. IsFiniteSet(Drawn)
  BY <1>3, FS_Interval DEF Drawn
<1>5. IsFiniteSet(range_running) /\ IsFiniteSet(range_starting)
  BY <1>4, FS_Subset DEF RangeInv, RangesApart
<1> QED
  BY <1>2, <1>5, FS_CardinalityType, FS_EmptySet

\* A range on its way is counted, so that main has not returned.
LEMMA RangeIsCounted ==
  ASSUME ArchiveOK, RangeInv, NEW i, i \in range_running \cup range_starting
  PROVE  /\ ranges_in_flight >= 1 /\ ranges_in_flight <= max_concurrent
         /\ range_main # "returned"
         /\ range_main = "starting" => ranges_in_flight >= 2
<1>1. /\ Cardinality(range_running) \in Nat /\ Cardinality(range_starting) \in Nat
      /\ Cardinality(range_running) = 0 <=> range_running = {}
      /\ Cardinality(range_starting) = 0 <=> range_starting = {}
  BY RangeSets
<1>2. Cardinality(range_running) + Cardinality(range_starting) >= 1
  BY <1>1
<1>3. ranges_in_flight >= 1 /\ (range_main = "starting" => ranges_in_flight >= 2)
  BY <1>1, <1>2 DEF RangeInv, RangeFlight
<1> QED
  BY <1>3, RangeFetchAssumption DEF RangeInv, RangeTypes, RangesReached

LEMMA RangeInitHolds == ASSUME ArchiveOK, RangeInit PROVE RangeInv
<1>1. total_ranges \in Nat
  BY RangeFacts
<1>2. range_cancel \in BOOLEAN
  BY DEF RangeInit
<1>3. RangeTypes
  BY <1>1, <1>2, RangeFetchAssumption DEF RangeInit, RangeTypes
<1>4. RangeFlight
  BY FS_EmptySet DEF RangeInit, RangeFlight
<1> QED
  BY <1>3, <1>4 DEF RangeInit, RangeInv, RangesApart, NoRangeLost, RangesReached, Drawn

\* Main waits or returns.
LEMMA AwaitRangesKeeps ==
  ASSUME ArchiveOK, RangeInv, UNCHANGED archive, range_main \in {"loop", "waiting"},
         range_main = "loop" /\ ranges_in_flight = 0 => next_range_to_start = total_ranges,
         AwaitRanges(ranges_in_flight),
         UNCHANGED <<range_idx, rangeCoord, range_running, range_starting, range_buffers>>
  PROVE  RangeInv'
<1>1. /\ total_ranges' = total_ranges
      /\ UNCHANGED <<next_range_to_start, ranges_in_flight, range_cancel, range_error>>
      /\ UNCHANGED <<range_running, range_starting, range_buffers, Drawn>>
  BY ArchiveFixed DEF rangeCoord, Drawn
<1>2. range_main' = (IF ranges_in_flight > 0 THEN "waiting" ELSE "returned")
        /\ range_main # "starting" /\ range_main' # "starting"
  BY DEF AwaitRanges
<1>3. ranges_in_flight \in Nat
  BY DEF RangeInv, RangeTypes
<1>4. RangeTypes'
  BY <1>1, <1>2 DEF RangeInv, RangeTypes
<1>5. RangesApart' /\ RangeFlight' /\ NoRangeLost'
  BY <1>1, <1>2 DEF RangeInv, RangesApart, RangeFlight, NoRangeLost
<1>6. RangesReached'
  BY <1>1, <1>2, <1>3 DEF RangeInv, RangesReached
<1> QED
  BY <1>4, <1>5, <1>6 DEF RangeInv

LEMMA RangeStartLoopKeeps ==
  ASSUME ArchiveOK, RangeInv, UNCHANGED archive, RangeStartLoop
  PROVE  RangeInv'
<1>1. total_ranges' = total_ranges /\ total_ranges \in Nat
  BY ArchiveFixed, RangeFacts
<1>2. range_main = "loop"
  BY DEF RangeStartLoop
<1>3. next_range_to_start \in 0..total_ranges /\ ranges_in_flight \in 0..max_concurrent
  BY DEF RangeInv, RangeTypes
<1>4. CASE ~MayStart
  <2>1. AwaitRanges(ranges_in_flight)
          /\ UNCHANGED <<range_idx, rangeCoord, range_running, range_starting, range_buffers>>
    BY <1>4 DEF RangeStartLoop
  <2>2. ranges_in_flight = 0 => next_range_to_start = total_ranges
    BY <1>1, <1>3, <1>4, RangeFetchAssumption DEF MayStart
  <2> QED
    BY <1>2, <2>1, <2>2, AwaitRangesKeeps
<1>5. CASE MayStart
  <2>1. /\ range_idx' = next_range_to_start
        /\ next_range_to_start' = next_range_to_start + 1
        /\ ranges_in_flight' = ranges_in_flight + 1
        /\ range_main' = "starting"
        /\ UNCHANGED <<range_cancel, range_error, range_running, range_starting, range_buffers>>
    BY <1>5 DEF RangeStartLoop
  <2>2. next_range_to_start' \in 0..total_ranges /\ ranges_in_flight' \in 0..max_concurrent
    BY <1>1, <1>3, <1>5, <2>1, RangeFetchAssumption DEF MayStart
  <2>3. RangeTypes'
    BY <1>1, <2>1, <2>2 DEF RangeInv, RangeTypes
  <2>4. /\ Drawn' = Drawn \cup {next_range_to_start} /\ next_range_to_start \notin Drawn
    BY <1>3, <2>1 DEF Drawn
  <2>5. RangesApart'
    BY <2>1, <2>4 DEF RangeInv, RangesApart
  <2>6. RangeFlight'
    <3>1. Cardinality(range_running) \in Nat /\ Cardinality(range_starting) \in Nat
      BY RangeSets
    <3> QED
      BY <1>2, <2>1, <3>1 DEF RangeInv, RangeFlight
  <2>7. NoRangeLost'
    BY <1>2, <2>1, <2>4 DEF RangeInv, NoRangeLost
  <2>8. RangesReached'
    BY <2>1 DEF RangesReached
  <2> QED
    BY <2>3, <2>5, <2>6, <2>7, <2>8 DEF RangeInv
<1> QED
  BY <1>4, <1>5

LEMMA RangeMainStartsKeeps ==
  ASSUME ArchiveOK, RangeInv, UNCHANGED archive, RangeMainStarts
  PROVE  RangeInv'
<1>1. /\ total_ranges' = total_ranges
      /\ range_main = "starting" /\ range_main' = "loop"
      /\ range_running' = range_running \cup {range_idx}
      /\ UNCHANGED <<next_range_to_start, ranges_in_flight, range_cancel, range_error>>
      /\ UNCHANGED <<range_idx, range_starting, range_buffers, Drawn>>
  BY ArchiveFixed DEF RangeMainStarts, rangeCoord, Drawn
<1>2. RangeTypes'
  BY <1>1 DEF RangeInv, RangeTypes
<1>3. range_idx \in Drawn /\ range_idx \notin range_running /\ range_idx \notin range_starting
  BY <1>1 DEF RangeInv, RangesApart
<1>4. RangesApart'
  BY <1>1, <1>3 DEF RangeInv, RangesApart
<1>5. RangeFlight'
  <2>1. /\ IsFiniteSet(range_running)
        /\ Cardinality(range_running) \in Nat /\ Cardinality(range_starting) \in Nat
    BY RangeSets
  <2>2. Cardinality(range_running \cup {range_idx}) = Cardinality(range_running) + 1
    BY <1>3, <2>1, FS_AddElement
  <2> QED
    BY <1>1, <2>1, <2>2 DEF RangeInv, RangeFlight
<1>6. NoRangeLost' /\ RangesReached'
  BY <1>1 DEF RangeInv, NoRangeLost, RangesReached
<1> QED
  BY <1>2, <1>4, <1>5, <1>6 DEF RangeInv

LEMMA RangeMainFailsKeeps ==
  ASSUME ArchiveOK, RangeInv, UNCHANGED archive, RangeMainFailsToStart
  PROVE  RangeInv'
<1>1. /\ total_ranges' = total_ranges
      /\ range_main = "starting" /\ ranges_in_flight' = ranges_in_flight - 1
      /\ range_main' = IF ranges_in_flight - 1 > 0 THEN "waiting" ELSE "returned"
      /\ range_cancel' = TRUE /\ range_error' = -1
      /\ UNCHANGED <<next_range_to_start, range_running, range_starting, range_buffers, Drawn>>
  BY ArchiveFixed DEF RangeMainFailsToStart, AwaitRanges, Drawn
<1>2. Cardinality(range_running) \in Nat /\ Cardinality(range_starting) \in Nat
  BY RangeSets
<1>3. ranges_in_flight = Cardinality(range_running) + Cardinality(range_starting) + 1
  BY <1>1 DEF RangeInv, RangeFlight
<1>4. RangeTypes'
  <2>1. ranges_in_flight' \in 0..max_concurrent
    BY <1>1, <1>2, <1>3, RangeFetchAssumption DEF RangeInv, RangeTypes
  <2>2. range_cancel' \in BOOLEAN
    BY <1>1, Zenon
  <2> QED
    BY <1>1, <2>1, <2>2 DEF RangeInv, RangeTypes
<1>5. RangesApart' /\ NoRangeLost'
  BY <1>1 DEF RangeInv, RangesApart, NoRangeLost
<1>6. RangeFlight' /\ RangesReached'
  BY <1>1, <1>2, <1>3 DEF RangeFlight, RangesReached
<1> QED
  BY <1>4, <1>5, <1>6 DEF RangeInv

\* A range request ends: its slot goes to the next range, or is given back.
LEMMA RangeFinishKeeps ==
  ASSUME ArchiveOK, RangeInv, UNCHANGED archive, NEW i \in RangeIndexes,
         NEW error \in BOOLEAN, RangeFinish(i, error)
  PROVE  RangeInv'
<1> DEFINE cancel == range_cancel \/ error
           goesOn == ~cancel /\ next_range_to_start < total_ranges
<1>1. /\ total_ranges' = total_ranges /\ total_ranges \in Nat
      /\ i \in range_running /\ range_running' = range_running \ {i}
      /\ range_cancel' = cancel
      /\ range_error' = IF error /\ ~range_cancel THEN -1 ELSE range_error
      /\ range_buffers' = IF error THEN range_buffers ELSE range_buffers \cup {i}
      /\ UNCHANGED <<range_main, range_idx>>
  BY ArchiveFixed, RangeFacts DEF RangeFinish, RangeErrorAfter
<1>2. goesOn =>
        /\ ranges_in_flight' = ranges_in_flight - 1 + 1
        /\ next_range_to_start' = next_range_to_start + 1
        /\ range_starting' = range_starting \cup {next_range_to_start}
  BY DEF RangeFinish, RangesLeft
<1>3. ~goesOn =>
        /\ ranges_in_flight' = ranges_in_flight - 1 + 0
        /\ UNCHANGED <<next_range_to_start, range_starting>>
  BY DEF RangeFinish, RangesLeft
<1>4. next_range_to_start \in 0..total_ranges /\ ranges_in_flight \in Nat /\ range_cancel \in BOOLEAN
  BY DEF RangeInv, RangeTypes
<1>5. /\ ranges_in_flight >= 1 /\ ranges_in_flight <= max_concurrent
      /\ range_main # "returned"
      /\ range_main = "starting" => ranges_in_flight >= 2
  BY <1>1, RangeIsCounted
<1>6. goesOn => next_range_to_start < total_ranges
  OBVIOUS
<1>7. ~goesOn /\ ~cancel => next_range_to_start = total_ranges
  BY <1>1, <1>4
<1>8. /\ IsFiniteSet(range_running) /\ IsFiniteSet(range_starting)
      /\ Cardinality(range_running) \in Nat /\ Cardinality(range_starting) \in Nat
  BY RangeSets
<1>9. Cardinality(range_running') = Cardinality(range_running) - 1
  BY <1>1, <1>8, FS_RemoveElement
<1> HIDE DEF goesOn
<1>10. RangeTypes'
  <2>1. ranges_in_flight' \in 0..max_concurrent
    BY <1>2, <1>3, <1>4, <1>5, RangeFetchAssumption
  <2>2. next_range_to_start' \in 0..total_ranges
    BY <1>1, <1>2, <1>3, <1>4, <1>6
  <2>3. range_cancel' \in BOOLEAN
    BY <1>1, Zenon
  <2>4. range_error' = IF range_cancel' THEN -1 ELSE 0
    BY <1>1, <1>4 DEF RangeInv, RangeTypes
  <2> QED
    BY <1>1, <2>1, <2>2, <2>3, <2>4 DEF RangeInv, RangeTypes
<1>11. CASE goesOn
  <2>1. Drawn' = Drawn \cup {next_range_to_start} /\ next_range_to_start \notin Drawn
    BY <1>2, <1>4, <1>11 DEF Drawn
  <2>2. ~cancel /\ ~error /\ range_buffers' = range_buffers \cup {i}
    BY <1>1, <1>11 DEF goesOn
  <2>3. RangesApart'
    BY <1>1, <1>2, <1>11, <2>1, <2>2 DEF RangeInv, RangesApart
  <2>4. RangeFlight'
    <3>1. next_range_to_start \notin range_starting
      BY <2>1 DEF RangeInv, RangesApart
    <3>2. Cardinality(range_starting') = Cardinality(range_starting) + 1
      BY <1>2, <1>8, <1>11, <3>1, FS_AddElement
    <3> QED
      BY <1>1, <1>2, <1>4, <1>8, <1>9, <1>11, <3>2 DEF RangeInv, RangeFlight
  <2>5. NoRangeLost'
    BY <1>1, <1>2, <1>11, <2>1, <2>2 DEF RangeInv, NoRangeLost
  <2>6. RangesReached'
    BY <1>1, <1>2, <1>4, <1>5, <1>11 DEF RangesReached
  <2> QED
    BY <1>10, <2>3, <2>4, <2>5, <2>6 DEF RangeInv
<1>12. CASE ~goesOn
  <2>1. Drawn' = Drawn
    BY <1>3, <1>12 DEF Drawn
  <2>2. RangesApart'
    BY <1>1, <1>3, <1>12, <2>1 DEF RangeInv, RangesApart
  <2>3. RangeFlight'
    BY <1>1, <1>3, <1>4, <1>8, <1>9, <1>12 DEF RangeInv, RangeFlight
  <2>4. NoRangeLost'
    <3> SUFFICES ASSUME ~cancel, NEW j \in Drawn
                 PROVE  \/ j \in range_running' \cup range_starting' \cup range_buffers'
                        \/ range_main' = "starting" /\ range_idx' = j
      BY <1>1, <2>1 DEF NoRangeLost
    <3>1. \/ j \in range_running \cup range_starting \cup range_buffers
          \/ range_main = "starting" /\ range_idx = j
      BY DEF RangeInv, NoRangeLost
    <3>2. range_buffers' = range_buffers \cup {i}
      BY <1>1
    <3> QED
      BY <1>1, <1>3, <1>12, <3>1, <3>2
  <2>5. RangesReached'
    BY <1>1, <1>3, <1>5, <1>7, <1>12 DEF RangesReached
  <2> QED
    BY <1>10, <2>2, <2>3, <2>4, <2>5 DEF RangeInv
<1> QED
  BY <1>11, <1>12

LEMMA RangeCallbackStartsKeeps ==
  ASSUME ArchiveOK, RangeInv, UNCHANGED archive, NEW i \in RangeIndexes, RangeCallbackStarts(i)
  PROVE  RangeInv'
<1>1. /\ total_ranges' = total_ranges
      /\ i \in range_starting
      /\ range_starting' = range_starting \ {i}
      /\ range_running' = range_running \cup {i}
      /\ UNCHANGED <<next_range_to_start, ranges_in_flight, range_cancel, range_error>>
      /\ UNCHANGED <<range_main, range_idx, range_buffers, Drawn>>
  BY ArchiveFixed DEF RangeCallbackStarts, rangeCoord, Drawn
<1>2. i \notin range_running
  BY <1>1 DEF RangeInv, RangesApart
<1>3. RangeTypes' /\ RangesApart' /\ NoRangeLost' /\ RangesReached'
  BY <1>1 DEF RangeInv, RangeTypes, RangesApart, NoRangeLost, RangesReached
<1>4. RangeFlight'
  <2>1. /\ IsFiniteSet(range_running) /\ IsFiniteSet(range_starting)
        /\ Cardinality(range_running) \in Nat /\ Cardinality(range_starting) \in Nat
    BY RangeSets
  <2>2. Cardinality(range_running') = Cardinality(range_running) + 1
    BY <1>1, <1>2, <2>1, FS_AddElement
  <2>3. Cardinality(range_starting') = Cardinality(range_starting) - 1
    BY <1>1, <2>1, FS_RemoveElement
  <2> QED
    BY <1>1, <2>1, <2>2, <2>3 DEF RangeInv, RangeFlight
<1> QED
  BY <1>3, <1>4 DEF RangeInv

\* Storing the request is none of the coordinator's business.
LEMMA RangeCallbackStoresKeeps ==
  ASSUME ArchiveOK, RangeInv, UNCHANGED archive, NEW i \in RangeIndexes, RangeCallbackStores(i)
  PROVE  RangeInv'
<1>1. /\ total_ranges' = total_ranges
      /\ UNCHANGED <<next_range_to_start, ranges_in_flight, range_cancel, range_error>>
      /\ UNCHANGED <<range_main, range_idx, range_running, range_starting, range_buffers, Drawn>>
  BY ArchiveFixed DEF RangeCallbackStores, rangeCoord, Drawn
<1> QED
  BY <1>1 DEF RangeInv, RangeTypes, RangesApart, RangeFlight, NoRangeLost, RangesReached

LEMMA RangeCallbackFailsKeeps ==
  ASSUME ArchiveOK, RangeInv, UNCHANGED archive, NEW i \in RangeIndexes,
         RangeCallbackFailsToStart(i)
  PROVE  RangeInv'
<1>1. /\ total_ranges' = total_ranges
      /\ i \in range_starting
      /\ range_starting' = range_starting \ {i}
      /\ ranges_in_flight' = ranges_in_flight - 1
      /\ range_cancel' = TRUE
      /\ range_error' = IF ~range_cancel THEN -1 ELSE range_error
      /\ UNCHANGED <<range_main, range_idx, next_range_to_start, range_running, range_buffers, Drawn>>
  BY ArchiveFixed DEF RangeCallbackFailsToStart, RangeErrorAfter, Drawn
<1>2. /\ ranges_in_flight >= 1 /\ ranges_in_flight <= max_concurrent
      /\ range_main # "returned"
  BY <1>1, RangeIsCounted
<1>3. RangeTypes'
  <2>1. ranges_in_flight' \in 0..max_concurrent
    BY <1>1, <1>2, RangeFetchAssumption DEF RangeInv, RangeTypes
  <2>2. range_cancel' \in BOOLEAN
    BY <1>1, Zenon
  <2>3. range_error' = IF range_cancel' THEN -1 ELSE 0
    BY <1>1 DEF RangeInv, RangeTypes
  <2> QED
    BY <1>1, <2>1, <2>2, <2>3 DEF RangeInv, RangeTypes
<1>4. RangesApart' /\ NoRangeLost' /\ RangesReached'
  BY <1>1, <1>2 DEF RangeInv, RangesApart, NoRangeLost, RangesReached
<1>5. RangeFlight'
  <2>1. /\ IsFiniteSet(range_starting)
        /\ Cardinality(range_running) \in Nat /\ Cardinality(range_starting) \in Nat
    BY RangeSets
  <2>2. Cardinality(range_starting') = Cardinality(range_starting) - 1
    BY <1>1, <2>1, FS_RemoveElement
  <2> QED
    BY <1>1, <2>1, <2>2 DEF RangeInv, RangeFlight
<1> QED
  BY <1>3, <1>4, <1>5 DEF RangeInv

\* All steps of the function; everything else leaves its variables alone.
AnyRangeStep == RangeMainSteps \/ RangeMainWakesSpuriously \/ RangeCallbackSteps

LEMMA RangeStepKeeps ==
  ASSUME ArchiveOK, RangeInv, UNCHANGED archive, AnyRangeStep \/ UNCHANGED rangeVars
  PROVE  RangeInv'
<1>1. CASE RangeStartLoop \/ RangeMainStarts \/ RangeMainFailsToStart
  BY <1>1, RangeStartLoopKeeps, RangeMainStartsKeeps, RangeMainFailsKeeps
<1>2. CASE range_main = "waiting" /\ RangeWake
  BY <1>2, AwaitRangesKeeps DEF RangeWake
<1>3. CASE RangeCallbackSteps
  BY <1>3, RangeFinishKeeps, RangeCallbackStartsKeeps, RangeCallbackStoresKeeps,
     RangeCallbackFailsKeeps
     DEF RangeCallbackSteps
<1>4. CASE UNCHANGED rangeVars
  <2>1. /\ total_ranges' = total_ranges
        /\ UNCHANGED <<next_range_to_start, ranges_in_flight, range_cancel, range_error>>
        /\ UNCHANGED <<range_main, range_idx, range_running, range_starting, range_buffers, Drawn>>
    BY <1>4, ArchiveFixed DEF rangeVars, rangeCoord, Drawn
  <2> QED
    BY <2>1 DEF RangeInv, RangeTypes, RangesApart, RangeFlight, NoRangeLost, RangesReached
<1> QED
  BY <1>1, <1>2, <1>3, <1>4
     DEF AnyRangeStep, RangeMainSteps, RangeMainWakes, RangeMainWakesSpuriously

\* When the function returns 0, every range is in memory.
LEMMA RangesAllThere ==
  ASSUME ArchiveOK, RangeInv, range_main = "returned", range_error = 0
  PROVE  range_buffers = RangeIndexes
<1>1. ~range_cancel /\ ranges_in_flight = 0
  BY DEF RangeInv, RangeTypes, RangesReached
<1>2. next_range_to_start = total_ranges
  BY <1>1 DEF RangeInv, RangesReached
<1>3. range_running = {} /\ range_starting = {}
  BY <1>1, RangeIsCounted
<1>4. Drawn = RangeIndexes
  BY <1>2, RangeFacts DEF Drawn
<1> QED
  BY <1>1, <1>3, <1>4 DEF RangeInv, RangesApart, NoRangeLost

(***************************************************************************)
(* The function implements AllOrError.                                     *)
(***************************************************************************)

LEMMA RangesStutter ==
  ASSUME UNCHANGED <<RangeIndexes, range_buffers, range_cancel, RangeOutcome>>
  PROVE  UNCHANGED Ranges!vars
  BY DEF Ranges!vars

\* Main's wait ends with the recorded error or goes on.
LEMMA AwaitRangesImplements ==
  ASSUME ArchiveOK, RangeInv, RangeInv', UNCHANGED archive, range_main \in {"loop", "waiting"},
         AwaitRanges(ranges_in_flight), UNCHANGED <<rangeCoord, range_buffers>>
  PROVE  [Ranges!Next]_(Ranges!vars)
<1>1. /\ UNCHANGED <<RangeIndexes, range_buffers, range_cancel, range_error, ranges_in_flight>>
      /\ range_main' = IF ranges_in_flight > 0 THEN "waiting" ELSE "returned"
      /\ RangeOutcome = "running"
  BY ArchiveFixed DEF rangeCoord, AwaitRanges, RangeOutcome
<1>2. CASE range_main' = "waiting"
  <2>1. RangeOutcome' = RangeOutcome
    BY <1>1, <1>2 DEF RangeOutcome
  <2> QED
    BY <1>1, <2>1, RangesStutter
<1>3. CASE range_main' = "returned" /\ range_cancel
  <2>1. range_error' = -1
    BY <1>1, <1>3 DEF RangeInv, RangeTypes
  <2>2. RangeOutcome' = "failed"
    BY <1>3, <2>1 DEF RangeOutcome
  <2>3. Ranges!ReturnFailed
    BY <1>1, <1>3, <2>2 DEF Ranges!ReturnFailed
  <2> QED
    BY <2>3 DEF Ranges!Next
<1>4. CASE range_main' = "returned" /\ ~range_cancel
  <2>1. range_error' = 0
    BY <1>1, <1>4 DEF RangeInv, RangeTypes
  <2>2. RangeOutcome' = "ok"
    BY <1>4, <2>1 DEF RangeOutcome
  <2>3. RangeIndexes \subseteq range_buffers
    <3>1. ranges_in_flight = 0
      BY <1>1, <1>4 DEF RangeInv, RangeTypes, RangesReached
    <3>2. UNCHANGED <<next_range_to_start, total_ranges>>
      BY ArchiveFixed DEF rangeCoord
    <3>3. next_range_to_start = total_ranges
      BY <1>1, <1>4, <3>1, <3>2 DEF RangeInv, RangesReached
    <3>4. range_running = {} /\ range_starting = {}
      BY <3>1, RangeIsCounted
    <3>5. Drawn = RangeIndexes
      BY <3>3, RangeFacts DEF Drawn
    <3> QED
      BY <1>4, <3>4, <3>5 DEF RangeInv, NoRangeLost
  <2>4. Ranges!ReturnOk
    BY <1>1, <1>4, <2>2, <2>3 DEF Ranges!ReturnOk
  <2> QED
    BY <2>4 DEF Ranges!Next
<1> QED
  BY <1>1, <1>2, <1>3, <1>4

LEMMA RangeStepImplements ==
  ASSUME ArchiveOK, RangeInv, RangeInv', UNCHANGED archive, AnyRangeStep \/ UNCHANGED rangeVars
  PROVE  [Ranges!Next]_(Ranges!vars)
<1>1. RangeIndexes' = RangeIndexes
  BY ArchiveFixed
<1>2. CASE RangeStartLoop /\ ~MayStart
  BY <1>2, AwaitRangesImplements DEF RangeStartLoop
<1>3. CASE RangeStartLoop /\ MayStart
  <2>1. range_main = "loop" /\ range_main' = "starting" /\ UNCHANGED <<range_buffers, range_cancel>>
    BY <1>3 DEF RangeStartLoop
  <2>2. RangeOutcome' = RangeOutcome
    BY <2>1 DEF RangeOutcome
  <2> QED
    BY <1>1, <2>1, <2>2, RangesStutter
<1>4. CASE RangeMainStarts
  <2>1. range_main = "starting" /\ range_main' = "loop" /\ UNCHANGED <<range_buffers, range_cancel>>
    BY <1>4 DEF RangeMainStarts, rangeCoord
  <2>2. RangeOutcome' = RangeOutcome
    BY <2>1 DEF RangeOutcome
  <2> QED
    BY <1>1, <2>1, <2>2, RangesStutter
<1>5. CASE RangeMainFailsToStart
  <2>1. /\ range_main = "starting" /\ range_main' \in {"waiting", "returned"}
        /\ range_cancel' = TRUE /\ range_error' = -1 /\ UNCHANGED range_buffers
    BY <1>5 DEF RangeMainFailsToStart, AwaitRanges
  <2>2. RangeOutcome = "running" /\ RangeOutcome' \in {"running", "failed"}
    BY <2>1 DEF RangeOutcome
  <2>3. Ranges!Fault \/ Ranges!ReturnFailed
    BY <1>1, <2>1, <2>2 DEF Ranges!Fault, Ranges!ReturnFailed
  <2> QED
    BY <2>3 DEF Ranges!Next
<1>6. CASE range_main = "waiting" /\ RangeWake
  BY <1>6, AwaitRangesImplements DEF RangeWake
<1>7. ASSUME NEW i \in RangeIndexes, RangeFinish(i, TRUE) \/ RangeCallbackFailsToStart(i)
      PROVE  [Ranges!Next]_(Ranges!vars)
  <2>1. /\ i \in range_running \cup range_starting
        /\ range_cancel' = TRUE /\ UNCHANGED <<range_main, range_buffers>>
    BY <1>7 DEF RangeFinish, RangeCallbackFailsToStart
  <2>2. range_main # "returned"
    BY <2>1, RangeIsCounted
  <2>3. RangeOutcome = "running" /\ RangeOutcome' = "running"
    BY <2>1, <2>2 DEF RangeOutcome
  <2>4. Ranges!Fault
    BY <1>1, <2>1, <2>3 DEF Ranges!Fault
  <2> QED
    BY <2>4 DEF Ranges!Next
<1>8. ASSUME NEW i \in RangeIndexes, RangeFinish(i, FALSE)
      PROVE  [Ranges!Next]_(Ranges!vars)
  <2>1. /\ i \in range_running /\ range_buffers' = range_buffers \cup {i}
        /\ range_cancel' = (range_cancel \/ FALSE) /\ UNCHANGED range_main
    BY <1>8 DEF RangeFinish
  <2>2. range_cancel' = range_cancel
    BY <2>1 DEF RangeInv, RangeTypes
  <2>3. range_main # "returned"
    BY <2>1, RangeIsCounted
  <2>4. RangeOutcome = "running" /\ RangeOutcome' = RangeOutcome
    BY <2>1, <2>3 DEF RangeOutcome
  <2>5. CASE i \in range_buffers
    BY <1>1, <2>1, <2>2, <2>4, <2>5, RangesStutter
  <2>6. CASE i \notin range_buffers
    <3>1. i \in range_buffers' \ range_buffers
      BY <2>1, <2>6
    <3>2. Ranges!DoItem
      BY <1>1, <2>1, <2>2, <2>4, <3>1 DEF Ranges!DoItem
    <3> QED
      BY <3>2 DEF Ranges!Next
  <2> QED
    BY <2>5, <2>6
<1>9. ASSUME NEW i \in RangeIndexes, RangeCallbackStarts(i) \/ RangeCallbackStores(i)
      PROVE  [Ranges!Next]_(Ranges!vars)
  <2>1. UNCHANGED <<range_main, range_error, range_cancel, range_buffers>>
    BY <1>9 DEF RangeCallbackStarts, RangeCallbackStores, rangeCoord
  <2>2. RangeOutcome' = RangeOutcome
    BY <2>1 DEF RangeOutcome
  <2> QED
    BY <1>1, <2>1, <2>2, RangesStutter
<1>10. CASE UNCHANGED rangeVars
  <2>1. UNCHANGED <<range_main, range_error, range_cancel, range_buffers>>
    BY <1>10 DEF rangeVars, rangeCoord
  <2>2. RangeOutcome' = RangeOutcome
    BY <2>1 DEF RangeOutcome
  <2> QED
    BY <1>1, <2>1, <2>2, RangesStutter
<1> QED
  BY <1>2, <1>3, <1>4, <1>5, <1>6, <1>7, <1>8, <1>9, <1>10
     DEF AnyRangeStep, RangeMainSteps, RangeMainWakes, RangeMainWakesSpuriously, RangeCallbackSteps

(***************************************************************************)
(* The request of the tail.                                                *)
(***************************************************************************)

AnyTailStep == TailMainSteps \/ TailWakes \/ TailCallbackSteps

LEMMA TailStepKeeps ==
  ASSUME TailInv, AnyTailStep \/ UNCHANGED tailVars
  PROVE  TailInv'
<1>1. CASE MakeRequest \/ CannotMakeRequest
  BY <1>1 DEF TailInv, MakeRequest, CannotMakeRequest
<1>2. CASE TestCompletion \/ TailWakes
  BY <1>2 DEF TailInv, TestCompletion, TailWakes
<1>3. CASE TailTimesOut
  BY <1>3 DEF TailInv, TailTimesOut, ReturnFromRequest
<1>4. CASE ReadCompletion
  BY <1>4 DEF TailInv, ReadCompletion, ReturnFromRequest, Completed
<1>5. CASE FinishRequest(0) \/ FinishRequest(-1)
  BY <1>5 DEF TailInv, FinishRequest
<1>6. CASE LeaveFinishCallback
  BY <1>6 DEF TailInv, LeaveFinishCallback
<1>7. CASE UNCHANGED tailVars
  BY <1>7 DEF TailInv, tailVars
<1> QED
  BY <1>1, <1>2, <1>3, <1>4, <1>5, <1>6, <1>7
     DEF AnyTailStep, TailMainSteps, TailCallbackSteps

\* Once the request succeeded its context does not change any more.
LEMMA SucceededStays ==
  ASSUME TailInv, AnyTailStep \/ UNCHANGED tailVars, tail_main = "succeeded"
  PROVE  tail_main' = "succeeded"
BY DEF TailInv, AnyTailStep, TailMainSteps, TailWakes, TailCallbackSteps, tailVars, MakeRequest,
       CannotMakeRequest, TestCompletion, TailTimesOut, ReadCompletion, FinishRequest,
       LeaveFinishCallback

(***************************************************************************)
(* The assembled directory.                                                *)
(***************************************************************************)

\* The function's ranges are the ranges of its indexes.
LEMMA RangesByIndex ==
  ASSUME ArchiveOK
  PROVE  {RangeAt(i) : i \in RangeIndexes} = cd_ranges
<1> DEFINE c == central_dir_offset
           s == initial_start
<1>1. c \in Nat /\ s \in Nat
  BY RangeFacts DEF ArchiveOK
<1>2. CASE c >= s
  <2>1. cd_ranges = {} /\ RangeIndexes = {}
    BY <1>1, <1>2, RangesAre, RangeFacts DEF cd_ranges
  <2> QED
    BY <2>1
<1>3. CASE c < s
  <2>1. FirstPart(c) \in Nat /\ LastPart(s) \in Nat /\ FirstPart(c) <= LastPart(s)
    BY <1>1, <1>3, PartsInOrder
  <2>2. cd_ranges = {RangeOf(p, c, s) : p \in FirstPart(c)..LastPart(s)}
    BY <1>1, <1>3, RangesAre DEF cd_ranges
  <2>3. RangeIndexes = 0..(LastPart(s) - FirstPart(c))
    BY <1>1, <1>3, <2>1, RangeFacts
  <2>4. ASSUME NEW i \in RangeIndexes
        PROVE  RangeAt(i) = RangeOf(FirstPart(c) + i, c, s)
    <3> DEFINE p == FirstPart(c) + i
    <3>1. p \in FirstPart(c)..LastPart(s) /\ p \in Nat
      BY <2>1, <2>3
    <3> HIDE DEF p
    <3>2. RangeOf(p, c, s) \in cd_ranges /\ RangeOf(p, c, s).start = p * part_size
      BY <2>2, <3>1 DEF RangeOf
    <3>3. ASSUME NEW r \in cd_ranges, r.start = p * part_size
          PROVE  r = RangeOf(p, c, s)
      <4>1. PICK q \in FirstPart(c)..LastPart(s) : r = RangeOf(q, c, s)
        BY <2>2
      <4>2. q \in Nat /\ q * part_size = p * part_size
        BY <2>1, <3>3, <4>1 DEF RangeOf
      <4>3. q = p
        BY <3>1, <4>2, SameStart
      <4> QED
        BY <4>1, <4>3
    <3>4. RangeAt(i) = CHOOSE r \in cd_ranges : r.start = p * part_size
      BY DEF RangeAt, p, FirstPart
    <3>5. RangeAt(i) = RangeOf(p, c, s)
      BY <3>2, <3>3, <3>4
    <3> QED
      BY <3>5 DEF p
  <2>5. ASSUME NEW p \in FirstPart(c)..LastPart(s)
        PROVE  \E i \in RangeIndexes : RangeAt(i) = RangeOf(p, c, s)
    <3>1. p - FirstPart(c) \in RangeIndexes /\ FirstPart(c) + (p - FirstPart(c)) = p
      BY <2>1, <2>3
    <3> QED
      BY <2>4, <3>1
  <2>6. ASSUME NEW i \in RangeIndexes
        PROVE  RangeAt(i) \in cd_ranges
    <3>1. FirstPart(c) + i \in FirstPart(c)..LastPart(s)
      BY <2>1, <2>3
    <3> QED
      BY <2>2, <2>4, <3>1
  <2> QED
    BY <2>2, <2>5, <2>6
<1> QED
  BY <1>1, <1>2, <1>3

\* A byte of the directory that the tail does not hold is in a range.
LEMMA ByteHasRange ==
  ASSUME ArchiveOK, NEW b \in central_dir_offset..(initial_start - 1)
  PROVE  \E r \in cd_ranges : /\ r.start \in Nat /\ r.end \in Int
                              /\ r.start <= b /\ b <= r.end
<1> DEFINE c == central_dir_offset
           s == initial_start
           p == b \div part_size
<1>1. c \in Nat /\ s \in Nat /\ b \in Nat /\ c <= b /\ b < s
  BY RangeFacts DEF ArchiveOK
<1>2. p \in Nat /\ p * part_size <= b /\ b < p * part_size + part_size
  BY <1>1, PartBrackets
<1> HIDE DEF p
<1>3. /\ FirstPart(c) \in Nat /\ LastPart(s) \in Nat
      /\ FirstPart(c) * part_size <= c
      /\ s - 1 < LastPart(s) * part_size + part_size
  BY <1>1, PartBrackets, PartsInOrder DEF FirstPart, LastPart
<1>4. p * part_size \in Nat /\ FirstPart(c) * part_size \in Nat /\ LastPart(s) * part_size \in Nat
  BY <1>2, <1>3, PartStart
<1>5. ~(p < FirstPart(c))
  <2> SUFFICES ASSUME p < FirstPart(c) PROVE FALSE
    OBVIOUS
  <2>1. p * part_size + part_size <= FirstPart(c) * part_size
    BY <1>2, <1>3, PartsApart
  <2> QED
    BY <1>1, <1>2, <1>3, <1>4, <2>1, CdFetchAssumption
<1>6. ~(LastPart(s) < p)
  <2> SUFFICES ASSUME LastPart(s) < p PROVE FALSE
    OBVIOUS
  <2>1. LastPart(s) * part_size + part_size <= p * part_size
    BY <1>2, <1>3, PartsApart
  <2> QED
    BY <1>1, <1>2, <1>3, <1>4, <2>1, CdFetchAssumption
<1>7. p \in FirstPart(c)..LastPart(s)
  BY <1>2, <1>3, <1>5, <1>6
<1>8. RangeOf(p, c, s) \in cd_ranges
  BY <1>1, <1>7, RangesAre DEF cd_ranges
<1>9. /\ RangeOf(p, c, s).start = p * part_size
      /\ RangeOf(p, c, s).end = RangeEnd(p, s)
  BY DEF RangeOf
<1>10. RangeEnd(p, s) \in Int /\ b <= RangeEnd(p, s)
  BY <1>1, <1>2, <1>4, CdFetchAssumption DEF RangeEnd
<1> QED
  BY <1>2, <1>4, <1>8, <1>9, <1>10

Copied(first, end) == Max({first, central_dir_offset})..(Min({end, cd_end}) - 1)

LEMMA CopiedIs ==
  ASSUME ArchiveOK, NEW first \in Int, NEW end \in Int
  PROVE  Copied(first, end) =
           {b \in central_dir_offset..(cd_end - 1) : first <= b /\ b < end}
<1>1. central_dir_offset \in Int /\ cd_end \in Int
  BY DEF ArchiveOK
<1>2. /\ Max({first, central_dir_offset}) =
           IF first <= central_dir_offset THEN central_dir_offset ELSE first
      /\ Min({end, cd_end}) = IF end <= cd_end THEN end ELSE cd_end
  BY <1>1, MinMaxOfTwo, Zenon
<1> QED
  BY <1>1, <1>2 DEF Copied

\* The ranges and the tail leave no gap, and nothing else is copied.
LEMMA AssembledIsDirectory ==
  ASSUME ArchiveOK
  PROVE  assemble_cd_buffer(cd_ranges, central_dir_offset, cd_end, initial_start, initial_size)
           = central_dir_offset..(cd_end - 1)
<1> DEFINE whole == central_dir_offset..(cd_end - 1)
           all == (UNION {Copied(r.start, r.end + 1) : r \in cd_ranges})
                    \cup Copied(initial_start, initial_start + initial_size)
<1>1. assemble_cd_buffer(cd_ranges, central_dir_offset, cd_end, initial_start, initial_size) = all
  BY DEF assemble_cd_buffer, Copied
<1>2. /\ central_dir_offset \in Nat /\ cd_end \in Nat /\ archive_size \in Nat
      /\ cd_end < archive_size
      /\ initial_start \in Nat /\ initial_start + initial_size = archive_size
  BY RangeFacts DEF ArchiveOK, initial_size
<1>3. Copied(initial_start, initial_start + initial_size)
        = {b \in whole : initial_start <= b /\ b < archive_size}
  BY <1>2, CopiedIs
<1>4. ASSUME NEW r \in cd_ranges
      PROVE  r.start \in Nat /\ r.end \in Int
  <2>1. ~(central_dir_offset >= initial_start)
    BY <1>2, RangesAre DEF cd_ranges
  <2>2. PICK p \in FirstPart(central_dir_offset)..LastPart(initial_start) :
          r = RangeOf(p, central_dir_offset, initial_start)
    BY <1>2, <2>1, RangesAre DEF cd_ranges
  <2>3. p \in Nat /\ p * part_size \in Nat
    BY <1>2, <2>1, PartsInOrder, PartStart
  <2> QED
    BY <1>2, <2>2, <2>3, CdFetchAssumption DEF RangeOf, RangeEnd
<1>5. ASSUME NEW r \in cd_ranges
      PROVE  Copied(r.start, r.end + 1) = {b \in whole : r.start <= b /\ b < r.end + 1}
  <2>1. r.start \in Int /\ r.end + 1 \in Int
    BY <1>4
  <2> QED
    BY <2>1, CopiedIs
<1>6. ASSUME NEW b \in all
      PROVE  b \in whole
  <2>1. CASE \E r \in cd_ranges : b \in Copied(r.start, r.end + 1)
    BY <1>5, <2>1
  <2>2. CASE b \in Copied(initial_start, initial_start + initial_size)
    BY <1>3, <2>2
  <2> QED
    BY <2>1, <2>2
<1>7. ASSUME NEW b \in whole
      PROVE  b \in all
  <2>1. CASE b >= initial_start
    <3>1. b \in Int /\ initial_start <= b /\ b < archive_size
      BY <1>2, <2>1
    <3>2. b \in Copied(initial_start, initial_start + initial_size)
      BY <1>3, <3>1
    <3> QED
      BY <3>2
  <2>2. CASE b < initial_start
    <3>1. b \in central_dir_offset..(initial_start - 1)
      BY <1>2, <2>2
    <3>2. PICK r \in cd_ranges : r.start \in Nat /\ r.end \in Int /\ r.start <= b /\ b <= r.end
      BY <3>1, ByteHasRange
    <3>3. b \in Copied(r.start, r.end + 1)
      BY <1>2, <1>5, <3>2
    <3> QED
      BY <3>3
  <2> QED
    BY <1>2, <2>1, <2>2
<1> QED
  BY <1>1, <1>6, <1>7

(***************************************************************************)
(* The driver.                                                             *)
(***************************************************************************)

\* What is in memory is one segment, from a range or from the tail, that
\* ends where the directory starts.
LEMMA SegmentFacts ==
  ASSUME ArchiveOK
  PROVE  LET range == RangeSegments(central_dir_offset, initial_start)
             tail == TailSegment(central_dir_offset, initial_start, initial_size)
             segment == Segment(archive_size, central_dir_offset)
         IN /\ range \subseteq {segment} /\ tail \subseteq {segment}
            /\ range \cup tail \subseteq [archive_offset : Offsets, size : 1..archive_size]
            /\ central_dir_offset >= initial_start => range = {}
<1> DEFINE n == archive_size
           c == central_dir_offset
           start == SegmentStart(n, c)
           segment == Segment(n, c)
           range == RangeSegments(c, initial_start)
           tail == TailSegment(c, initial_start, initial_size)
<1>1. /\ n \in Nat \ {0} /\ c \in 1..(n - 1) /\ c \in Nat /\ initial_start = InitialStart(n)
      /\ initial_start \in Nat /\ initial_size = n - InitialStart(n)
  BY RangeFacts DEF ArchiveOK, initial_start, initial_size
<1>2. range = IF c < initial_start /\ start < c THEN {segment} ELSE {}
  BY <1>1, RangeSegmentsAre
<1>3. tail = IF initial_start < c THEN {segment} ELSE {}
  BY <1>1, TailSegmentIs
<1>4. start \in Nat /\ (initial_start < c => start < c)
  <2>1. FirstPart(c) \in Nat
    BY <1>1, PartBrackets DEF FirstPart
  <2>2. FirstPart(c) * part_size \in Nat
    BY <2>1, PartStart
  <2> QED
    BY <1>1, <2>2 DEF SegmentStart
<1>5. start < c => segment \in [archive_offset : Offsets, size : 1..n]
  <2> HAVE start < c
  <2> HIDE DEF start
  <2>1. start \in Offsets /\ c - start \in 1..n
    BY <1>1, <1>4 DEF Offsets
  <2>2. segment = [archive_offset |-> start, size |-> c - start]
    BY DEF Segment, start
  <2> QED
    BY <2>1, <2>2
<1> HIDE DEF start, segment, range, tail
<1>6. range \subseteq {segment} /\ tail \subseteq {segment}
  BY <1>2, <1>3
<1>7. range \cup tail \subseteq [archive_offset : Offsets, size : 1..n]
  BY <1>2, <1>3, <1>4, <1>5
<1>8. c >= initial_start => range = {}
  BY <1>1, <1>2
<1> QED
  BY <1>6, <1>7, <1>8 DEF range, tail, segment

\* The variables of the other parts, in a step of the driver.
DriverOnly == UNCHANGED <<archive, tailVars, rangeVars>>

LEMMA DriverFrame ==
  ASSUME DriverOnly
  PROVE  /\ UNCHANGED <<archive_size, central_dir_offset, cd_end, initial_start, initial_size>>
         /\ UNCHANGED <<Offsets, tail_main>>
         /\ TailOrParts' = TailOrParts
<1>1. UNCHANGED archive /\ UNCHANGED tailVars
  BY DEF DriverOnly
<1> QED
  BY <1>1, ArchiveFixed DEF tailVars

LEMMA FailKeeps ==
  ASSUME DriverInv, DriverOnly, stage # "returned", Fail
  PROVE  DriverInv'
BY DriverFrame DEF DriverInv, DriverTypes, StagesInOrder, SegmentsKnown, FedInPlace, Fail

LEMMA FetchTailKeeps ==
  ASSUME DriverInv, DriverOnly, FetchTail
  PROVE  DriverInv'
<1>1. CASE Fail
  BY <1>1, FailKeeps DEF FetchTail
<1>2. CASE tail_main = "succeeded" /\ Proceed("eocd")
  <2>1. stage = "tail"
    BY DEF FetchTail
  <2> QED
    BY <1>2, <2>1, DriverFrame
       DEF DriverInv, DriverTypes, StagesInOrder, SegmentsKnown, FedInPlace, Proceed
<1> QED
  BY <1>1, <1>2 DEF FetchTail

LEMMA ParseEocdKeeps ==
  ASSUME ArchiveOK, DriverInv, DriverOnly, ParseEocd
  PROVE  DriverInv'
<1>1. stage = "eocd"
  BY DEF ParseEocd
<1>2. CASE Fail
  BY <1>1, <1>2, FailKeeps
<1>3. CASE central_dir_offset >= initial_start /\ Proceed("parse")
  <2>1. RangeSegments(central_dir_offset, initial_start) = {}
    BY <1>3, SegmentFacts
  <2>2. central_dir_offset \in Nat /\ initial_start \in Nat
    BY RangeFacts DEF ArchiveOK
  <2>3. StagesInOrder'
    BY <1>1, <1>3, <2>2, DriverFrame DEF DriverInv, StagesInOrder, Proceed
  <2>4. DriverTypes' /\ SegmentsKnown' /\ FedInPlace'
    BY <1>1, <1>3, <2>1, DriverFrame
       DEF DriverInv, DriverTypes, SegmentsKnown, FedInPlace, Proceed
  <2> QED
    BY <2>3, <2>4 DEF DriverInv
<1>4. CASE Proceed("partial") \/ Proceed("ranges")
  BY <1>1, <1>4, DriverFrame
     DEF DriverInv, DriverTypes, StagesInOrder, SegmentsKnown, FedInPlace, Proceed
<1> QED
  BY <1>2, <1>3, <1>4 DEF ParseEocd

LEMMA TryHybridKeeps ==
  ASSUME DriverInv, DriverOnly, TryHybrid
  PROVE  DriverInv'
BY DriverFrame
   DEF TryHybrid, DriverInv, DriverTypes, StagesInOrder, SegmentsKnown, FedInPlace, Proceed

LEMMA AssembleRangesKeeps ==
  ASSUME ArchiveOK, RangeInv, DriverInv, DriverOnly, AssembleRanges
  PROVE  DriverInv'
<1>1. stage = "ranges" /\ range_main = "returned"
  BY DEF AssembleRanges
<1>2. CASE Fail
  BY <1>1, <1>2, FailKeeps
<1>3. CASE ~Fail
  <2>1. /\ range_error = 0
        /\ cd_data' = assemble_cd_buffer({RangeAt(i) : i \in range_buffers}, central_dir_offset,
                                         cd_end, initial_start, initial_size)
        /\ segments' = RangeSegments(central_dir_offset, initial_start)
        /\ stage' = "parse"
        /\ UNCHANGED <<fed, result>>
    BY <1>3 DEF AssembleRanges
  <2>2. {RangeAt(i) : i \in range_buffers} = cd_ranges
    BY <1>1, <2>1, RangesAllThere, RangesByIndex
  <2>3. cd_data' = central_dir_offset..(cd_end - 1)
    BY <2>1, <2>2, AssembledIsDirectory
  <2>4. cd_data' \subseteq Offsets
    BY <2>3 DEF ArchiveOK, Offsets
  <2>5. segments' \subseteq [archive_offset : Offsets, size : 1..archive_size]
          /\ segments' \subseteq {Segment(archive_size, central_dir_offset)}
    BY <2>1, SegmentFacts
  <2>6. DriverTypes'
    BY <2>1, <2>4, <2>5, DriverFrame DEF DriverInv, DriverTypes
  <2>7. StagesInOrder'
    BY <1>1, <2>1, <2>3, DriverFrame DEF DriverInv, StagesInOrder
  <2>8. SegmentsKnown' /\ FedInPlace'
    BY <1>1, <2>1, <2>5, DriverFrame DEF DriverInv, SegmentsKnown, FedInPlace
  <2> QED
    BY <2>6, <2>7, <2>8 DEF DriverInv
<1> QED
  BY <1>2, <1>3

LEMMA ParseDirectoryKeeps ==
  ASSUME ArchiveOK, DriverInv, DriverOnly, ParseDirectory
  PROVE  DriverInv'
<1>1. stage = "parse"
  BY DEF ParseDirectory
<1>2. CASE Fail
  BY <1>1, <1>2, FailKeeps
<1>3. CASE ~Fail
  <2>1. /\ cd_data' = IF central_dir_offset < initial_start
                      THEN cd_data
                      ELSE central_dir_offset..(archive_size - 1)
        /\ stage' = "extract"
        /\ UNCHANGED <<segments, fed, result>>
    BY <1>3 DEF ParseDirectory
  <2>2. cd_data' \subseteq Offsets
    BY <2>1 DEF ArchiveOK, Offsets, DriverInv, DriverTypes
  <2>3. central_dir_offset..(cd_end - 1) \subseteq cd_data'
    BY <1>1, <2>1 DEF ArchiveOK, DriverInv, StagesInOrder
  <2>4. DriverTypes'
    BY <2>1, <2>2, DriverFrame DEF DriverInv, DriverTypes
  <2>5. StagesInOrder' /\ SegmentsKnown' /\ FedInPlace'
    BY <1>1, <2>1, <2>3, DriverFrame DEF DriverInv, StagesInOrder, SegmentsKnown, FedInPlace
  <2> QED
    BY <2>4, <2>5 DEF DriverInv
<1> QED
  BY <1>2, <1>3

\* process_single_part_archive; the initial buffer is the archive if the
\* archive is as small as the tail.
LEMMA SinglePartKeeps ==
  ASSUME ArchiveOK, DriverInv, DriverOnly, ExtractSinglePart
  PROVE  DriverInv'
<1>1. stage = "extract" /\ IsSinglePart
  BY DEF ExtractSinglePart
<1>2. CASE Fail
  BY <1>1, <1>2, FailKeeps
<1>3. CASE ~Fail
  <2> DEFINE c == central_dir_offset
             end == Min({c, initial_size})
  <2>1. fed' = SinglePart /\ result' = 0 /\ stage' = "returned" /\ UNCHANGED <<cd_data, segments>>
    BY <1>3 DEF ExtractSinglePart
  <2>2. /\ c \in Nat /\ archive_size \in Nat \ {0} /\ c < archive_size
        /\ initial_start \in Nat /\ initial_size \in Nat
        /\ initial_start + initial_size = archive_size
    BY RangeFacts DEF ArchiveOK, initial_size
  <2>3. end = IF c <= initial_size THEN c ELSE initial_size
    <3>1. c \in Int /\ initial_size \in Int
      BY <2>2
    <3> QED
      BY <3>1, MinMaxOfTwo, Zenon
  <2> HIDE DEF end
  <2>4. SinglePart = {<<i, initial_start + i>> : i \in 0..(end - 1)}
    BY DEF SinglePart, end
  <2>5. \A i \in 0..(end - 1) : i \in Offsets /\ initial_start + i \in Offsets
    BY <2>2, <2>3 DEF Offsets
  <2>6. fed' \subseteq Offsets \X Offsets
    BY <2>1, <2>4, <2>5
  <2>7. DriverTypes'
    BY <2>1, <2>6, DriverFrame DEF DriverInv, DriverTypes
  <2>8. TailOrParts => /\ \A f \in fed' : f[1] = f[2]
                       /\ \A b \in 0..(c - 1) : <<b, b>> \in fed'
    <3> HAVE TailOrParts
    <3>1. archive_size <= part_size
      <4>1. num_parts \in Nat \ {0} /\ archive_size <= num_parts * part_size
        BY <2>2, NumPartsCover DEF num_parts
      <4>2. num_parts = 1
        BY <1>1, <4>1 DEF IsSinglePart
      <4> QED
        BY <4>1, <4>2, CdFetchAssumption
    <3>2. archive_size <= TAIL_SIZE
      BY <2>2, <3>1, CdFetchAssumption DEF TailOrParts
    <3>3. initial_start = 0
      BY <2>2, <3>2, CdFetchAssumption DEF initial_start, InitialStart
    <3>4. end = c
      BY <2>2, <2>3, <3>3
    <3>5. \A i \in 0..(c - 1) : initial_start + i = i
      BY <2>2, <3>3
    <3>6. fed' = {<<i, i>> : i \in 0..(c - 1)}
      BY <2>1, <2>4, <3>4, <3>5
    <3> QED
      BY <3>6
  <2>9. StagesInOrder' /\ SegmentsKnown' /\ FedInPlace'
    BY <2>1, <2>8, DriverFrame DEF DriverInv, StagesInOrder, SegmentsKnown, FedInPlace
  <2> QED
    BY <2>7, <2>9 DEF DriverInv
<1> QED
  BY <1>2, <1>3

LEMMA AddTailSegmentKeeps ==
  ASSUME ArchiveOK, DriverInv, DriverOnly, AddTailSegment
  PROVE  DriverInv'
<1>1. stage = "extract"
  BY DEF AddTailSegment
<1>2. CASE Fail
  BY <1>1, <1>2, FailKeeps
<1>3. CASE ~Fail
  <2>1. /\ segments' = segments \cup TailSegment(central_dir_offset, initial_start, initial_size)
        /\ stage' = "concurrent"
        /\ UNCHANGED <<cd_data, fed, result>>
    BY <1>3 DEF AddTailSegment
  <2>2. segments = RangeSegments(central_dir_offset, initial_start)
    BY <1>1 DEF DriverInv, SegmentsKnown
  <2>3. segments' \subseteq [archive_offset : Offsets, size : 1..archive_size]
          /\ segments' \subseteq {Segment(archive_size, central_dir_offset)}
    BY <2>1, <2>2, SegmentFacts
  <2>4. DriverTypes'
    BY <2>1, <2>3, DriverFrame DEF DriverInv, DriverTypes
  <2>5. StagesInOrder' /\ SegmentsKnown' /\ FedInPlace'
    BY <1>1, <2>1, <2>2, <2>3, DriverFrame DEF DriverInv, StagesInOrder, SegmentsKnown, FedInPlace
  <2> QED
    BY <2>4, <2>5 DEF DriverInv
<1> QED
  BY <1>2, <1>3

\* What is fed for a part lies in the archive, and all body data of the part
\* is fed, by download or from the segment.
LEMMA DownloadedIs ==
  ASSUME ArchiveOK, NEW p \in Nat
  PROVE  Downloaded(p) = {<<b, b>> : b \in {o \in Offsets : /\ p * part_size <= o
                                                           /\ o < p * part_size + part_size}}
<1>1. archive_size \in Nat /\ p * part_size \in Nat /\ part_size \in Nat
        /\ (p + 1) * part_size = p * part_size + part_size /\ (p + 1) * part_size \in Nat
  BY PartStart, CdFetchAssumption DEF ArchiveOK
<1>2. Min({(p + 1) * part_size, archive_size}) =
        IF (p + 1) * part_size <= archive_size THEN (p + 1) * part_size ELSE archive_size
  <2>1. (p + 1) * part_size \in Int /\ archive_size \in Int
    BY <1>1
  <2> QED
    BY <2>1, MinMaxOfTwo, Zenon
<1>3. (p * part_size)..(Min({(p + 1) * part_size, archive_size}) - 1)
        = {o \in Offsets : p * part_size <= o /\ o < p * part_size + part_size}
  BY <1>1, <1>2 DEF Offsets
<1> QED
  BY <1>3 DEF Downloaded

LEMMA FromSegmentIs ==
  ASSUME ArchiveOK, NEW p \in Nat
  PROVE  FromSegment(p, Segment(archive_size, central_dir_offset)) =
           {<<b, b>> : b \in {o \in 0..(central_dir_offset - 1) :
                                /\ p * part_size <= o /\ o < p * part_size + part_size}}
<1> DEFINE c == central_dir_offset
           s == Segment(archive_size, c)
           body == PartBodyEnd(p, c)
<1>1. c \in Nat /\ p * part_size \in Nat /\ part_size \in Nat
  BY PartStart, CdFetchAssumption DEF ArchiveOK
<1>2. s.archive_offset + s.size = c
  <2>1. SegmentStart(archive_size, c) \in Nat
    <3>1. FirstPart(c) \in Nat
      BY <1>1, PartBrackets DEF FirstPart
    <3>2. FirstPart(c) * part_size \in Nat
      BY <3>1, PartStart
    <3> QED
      BY <3>2, RangeFacts DEF SegmentStart, initial_start
  <2> QED
    BY <1>1, <2>1 DEF Segment
<1>3. body = IF p * part_size + part_size <= c THEN p * part_size + part_size ELSE c
  BY <1>1, BodyEnd
<1> HIDE DEF s, body
<1>4. body \in Nat /\ Min({body, c}) = IF body <= c THEN body ELSE c
  <2>1. body \in Nat
    BY <1>1, <1>3
  <2>2. body \in Int /\ c \in Int
    BY <1>1, <2>1
  <2>3. Min({body, c}) = IF body <= c THEN body ELSE c
    BY <2>2, MinMaxOfTwo, Zenon
  <2> QED
    BY <2>1, <2>3
<1>5. (p * part_size)..(Min({body, c}) - 1)
        = {o \in 0..(c - 1) : p * part_size <= o /\ o < p * part_size + part_size}
  BY <1>1, <1>3, <1>4
<1>6. FromSegment(p, s) = {<<b, b>> : b \in (p * part_size)..(Min({body, c}) - 1)}
  BY <1>2 DEF FromSegment, body
<1> QED
  BY <1>5, <1>6 DEF s

LEMMA ConcurrentKeeps ==
  ASSUME ArchiveOK, DriverInv, DriverOnly, ExtractConcurrent
  PROVE  DriverInv'
<1>1. stage = "concurrent"
  BY DEF ExtractConcurrent
<1>2. CASE Fail
  BY <1>1, <1>2, FailKeeps
<1>3. CASE ~Fail
  <2> DEFINE c == central_dir_offset
             covered == CoveredParts(archive_size, c, segments)
             Bytes(p) == {o \in Offsets : p * part_size <= o /\ o < p * part_size + part_size}
  <2>1. /\ \E from \in [covered -> segments] :
             fed' = UNION ({Downloaded(p) : p \in Parts \ covered}
                              \cup {FromSegment(p, from[p]) : p \in covered})
        /\ result' = 0 /\ stage' = "returned" /\ UNCHANGED <<cd_data, segments>>
    BY <1>3 DEF ExtractConcurrent
  <2>2. PICK from \in [covered -> segments] :
             fed' = UNION ({Downloaded(p) : p \in Parts \ covered}
                              \cup {FromSegment(p, from[p]) : p \in covered})
    BY <2>1
  <2>3. c \in Nat /\ archive_size \in Nat \ {0} /\ c < archive_size
    BY DEF ArchiveOK
  <2>4. num_parts \in Nat \ {0} /\ archive_size <= num_parts * part_size
    BY <2>3, NumPartsCover DEF num_parts
  <2>5. covered \subseteq Parts /\ Parts \subseteq Nat
    BY <2>4 DEF CoveredParts, Parts, num_parts
  <2> HIDE DEF covered
  <2>6. ASSUME NEW p \in covered
        PROVE  FromSegment(p, from[p]) = {<<b, b>> : b \in {o \in 0..(c - 1) : o \in Bytes(p)}}
    <3>1. from[p] = Segment(archive_size, c)
      BY <2>2 DEF DriverInv, SegmentsKnown
    <3>2. {o \in 0..(c - 1) : o \in Bytes(p)}
            = {o \in 0..(c - 1) : p * part_size <= o /\ o < p * part_size + part_size}
      BY <2>3 DEF Offsets
    <3> QED
      BY <2>5, <3>1, <3>2, FromSegmentIs
  <2>7. ASSUME NEW p \in Parts
        PROVE  Downloaded(p) = {<<b, b>> : b \in Bytes(p)}
    BY <2>5, DownloadedIs
  <2> HIDE DEF Bytes
  <2>8. ASSUME NEW f \in fed'
        PROVE  \E b \in Offsets : f = <<b, b>>
    <3>1. CASE \E p \in Parts \ covered : f \in Downloaded(p)
      BY <2>7, <3>1 DEF Bytes
    <3>2. CASE \E p \in covered : f \in FromSegment(p, from[p])
      BY <2>6, <3>2 DEF Bytes
    <3> QED
      BY <2>2, <3>1, <3>2
  <2>9. ASSUME NEW b \in 0..(c - 1)
        PROVE  <<b, b>> \in fed'
    <3> DEFINE p == b \div part_size
    <3>1. b \in Nat /\ b \in Offsets
      BY <2>3 DEF Offsets
    <3>2. p \in Nat /\ p * part_size <= b /\ b < p * part_size + part_size
      BY <3>1, PartBrackets
    <3> HIDE DEF p
    <3>3. b \in Bytes(p)
      BY <3>1, <3>2 DEF Bytes
    <3>4. p \in Parts
      <4>1. ~(num_parts <= p)
        <5> SUFFICES ASSUME num_parts <= p PROVE FALSE
          OBVIOUS
        <5>1. p * part_size \in Nat /\ num_parts * part_size \in Nat
          BY <2>4, <3>2, PartStart
        <5>2. num_parts * part_size <= p * part_size
          <6>1. CASE num_parts = p
            BY <5>1, <6>1
          <6>2. CASE num_parts < p
            BY <2>4, <3>2, <5>1, <6>2, PartsApart, CdFetchAssumption
          <6> QED
            BY <2>4, <3>2, <6>1, <6>2
        <5> QED
          BY <2>3, <2>4, <3>1, <3>2, <5>1, <5>2 DEF Offsets
      <4> QED
        BY <2>4, <3>2, <4>1 DEF Parts
    <3>5. CASE p \in covered
      <4>1. <<b, b>> \in FromSegment(p, from[p])
        BY <2>6, <3>3, <3>5
      <4> QED
        BY <2>2, <3>5, <4>1
    <3>6. CASE p \notin covered
      <4>1. <<b, b>> \in Downloaded(p)
        BY <2>7, <3>3, <3>4
      <4> QED
        BY <2>2, <3>4, <3>6, <4>1
    <3> QED
      BY <3>5, <3>6
  <2>10. fed' \subseteq Offsets \X Offsets /\ \A f \in fed' : f[1] = f[2]
    BY <2>8
  <2>11. DriverTypes'
    BY <2>1, <2>10, DriverFrame DEF DriverInv, DriverTypes
  <2>12. StagesInOrder' /\ SegmentsKnown' /\ FedInPlace'
    BY <2>1, <2>9, <2>10, DriverFrame DEF DriverInv, StagesInOrder, SegmentsKnown, FedInPlace
  <2> QED
    BY <2>11, <2>12 DEF DriverInv
<1> QED
  BY <1>2, <1>3

(***************************************************************************)
(* The invariant and the theorems.                                         *)
(***************************************************************************)

LEMMA ExtractInitHolds == Init => ExtractInv
<1> SUFFICES ASSUME Init PROVE ExtractInv
  OBVIOUS
<1>1. ArchiveOK
  BY ExtractAssumption DEF Init, ArchiveOK
<1>2. RangeInv
  BY <1>1, RangeInitHolds DEF Init
<1>3. TailInv
  BY DEF Init, TailInit, TailInv
<1>4. DriverInv
  BY DEF Init, TailInit, DriverInv, DriverTypes, StagesInOrder, SegmentsKnown, FedInPlace
<1> QED
  BY <1>1, <1>2, <1>3, <1>4 DEF ExtractInv

\* Steps of the tail request and of the range requests leave the driver
\* where it is.
LEMMA OthersKeepDriver ==
  ASSUME TailInv, DriverInv, UNCHANGED archive, UNCHANGED driver,
         AnyTailStep \/ UNCHANGED tailVars
  PROVE  DriverInv'
<1>1. UNCHANGED <<stage, cd_data, segments, fed, result>>
  BY DEF driver
<1>2. tail_main = "succeeded" => tail_main' = "succeeded"
  BY SucceededStays
<1> QED
  BY <1>1, <1>2, ArchiveFixed DEF DriverInv, DriverTypes, StagesInOrder, SegmentsKnown, FedInPlace

\* Which part a step belongs to.
LEMMA StepOf ==
  ASSUME [Next]_vars
  PROVE  /\ UNCHANGED archive
         /\ AnyTailStep \/ UNCHANGED tailVars
         /\ AnyRangeStep \/ UNCHANGED rangeVars
         /\ UNCHANGED driver \/ DriverSteps
BY DEF Next, vars, MainSteps, DriverSteps, TailSteps, RangeSteps, RangeCallbacks, AnyTailStep,
       AnyRangeStep

LEMMA ExtractInvInductive == ExtractInv /\ [Next]_vars => ExtractInv'
<1> SUFFICES ASSUME ExtractInv, [Next]_vars PROVE ExtractInv'
  OBVIOUS
<1>1. ArchiveOK /\ TailInv /\ RangeInv /\ DriverInv
  BY DEF ExtractInv
<1>2. /\ UNCHANGED archive
      /\ AnyTailStep \/ UNCHANGED tailVars
      /\ AnyRangeStep \/ UNCHANGED rangeVars
      /\ UNCHANGED driver \/ DriverSteps
  BY StepOf
<1>3. ArchiveOK'
  BY <1>1, <1>2, ArchiveFixed
<1>4. TailInv'
  BY <1>1, <1>2, TailStepKeeps
<1>5. RangeInv'
  BY <1>1, <1>2, RangeStepKeeps
<1>6. DriverInv'
  <2>1. CASE UNCHANGED driver
    BY <1>1, <1>2, <2>1, OthersKeepDriver
  <2>2. CASE DriverSteps
    <3>1. DriverOnly
      BY <2>2 DEF DriverSteps, DriverOnly
    <3> QED
      BY <1>1, <2>2, <3>1, FetchTailKeeps, ParseEocdKeeps, TryHybridKeeps, AssembleRangesKeeps,
         ParseDirectoryKeeps, SinglePartKeeps, AddTailSegmentKeeps, ConcurrentKeeps
         DEF DriverSteps
  <2> QED
    BY <1>2, <2>1, <2>2
<1> QED
  BY <1>3, <1>4, <1>5, <1>6 DEF ExtractInv

LEMMA ExtractInvariant == Spec => []ExtractInv
BY ExtractInitHolds, ExtractInvInductive, PTL DEF Spec

\* Every buffer, segment and byte burst_downloader_extract handles lies in
\* the archive, and burst_downloader_fetch_cd_ranges never has more than
\* max_concurrent range requests in flight.
THEOREM ExtractTypeCorrect == Spec => []TypeOK
<1>1. ExtractInv => TypeOK
  <2> SUFFICES ASSUME ExtractInv PROVE TypeOK
    OBVIOUS
  <2>1. range_running \subseteq RangeIndexes /\ range_starting \subseteq RangeIndexes
    BY RangeSets DEF ExtractInv, RangeInv, RangesApart
  <2> QED
    BY <2>1 DEF ExtractInv, DriverInv, DriverTypes, RangeInv, RangeTypes, TypeOK
<1> QED
  BY <1>1, ExtractInvariant, PTL

\* The tail buffer is read only after its request ended without an error,
\* whichever of the timeout, a spurious wake-up and the finish callback came
\* first (wait_for_completion, burst_downloader_fetch_cd_part).
THEOREM TailReadWhenComplete == Spec => []TailIsComplete
<1>1. ExtractInv => TailIsComplete
  BY DEF ExtractInv, TailInv, DriverInv, StagesInOrder, TailIsComplete
<1> QED
  BY <1>1, ExtractInvariant, PTL

\* The buffer the directory parser is given has no gap, wherever the
\* directory starts and ends and in whatever order its ranges arrived
\* (calculate_cd_fetch_ranges, assemble_cd_buffer).
THEOREM DirectoryIsComplete == Spec => []DirectoryInMemory
<1>1. ExtractInv => DirectoryInMemory
  BY DEF ExtractInv, DriverInv, StagesInOrder, DirectoryInMemory
<1> QED
  BY <1>1, ExtractInvariant, PTL

\* Body data is in memory in one piece: from the first directory range or
\* from the tail, never from both (add_tail_buffer_segment).
THEOREM SegmentIsUnique == Spec => []OneBodySegment
<1>1. ExtractInv => OneBodySegment
  <2> SUFFICES ASSUME ExtractInv PROVE Cardinality(segments) <= 1
    BY DEF OneBodySegment
  <2>1. segments \subseteq {Segment(archive_size, central_dir_offset)}
    BY DEF ExtractInv, DriverInv, SegmentsKnown
  <2>2. segments = {} \/ segments = {Segment(archive_size, central_dir_offset)}
    BY <2>1
  <2>3. Cardinality(segments) \in {0, 1}
    <3>1. Cardinality({}) = 0 /\ Cardinality({Segment(archive_size, central_dir_offset)}) = 1
      BY FS_EmptySet, FS_Singleton
    <3> QED
      BY <2>2, <3>1
  <2> QED
    BY <2>3
<1> QED
  BY <1>1, ExtractInvariant, PTL

\* No archive lies between the tail and a part in size.  With the default
\* part size, the size of the tail, there is none.
SizesAllowed == \A n \in ArchiveSizes : n <= TAIL_SIZE \/ n > part_size

LEMMA DefaultPartSize == ASSUME part_size = TAIL_SIZE PROVE SizesAllowed
BY ExtractAssumption, CdFetchAssumption DEF SizesAllowed

\* When burst_downloader_extract returns 0 on the sequential path, every
\* byte of file data was handed to the processor of its part, provided that
\* an archive of one part fits the tail buffer.
THEOREM ExtractRestoresAll ==
  ASSUME SizesAllowed
  PROVE  Spec => []AllDataRestored
<1>1. ExtractInv => AllDataRestored
  BY DEF ExtractInv, ArchiveOK, DriverInv, FedInPlace, AllDataRestored, SizesAllowed, TailOrParts
<1> QED
  BY <1>1, ExtractInvariant, PTL

\* On the same condition every byte handed to a part processor is the byte
\* of the archive the processor takes it for (process_single_part_archive,
\* the body segments and the downloaded parts).
THEOREM ExtractBytesInPlace ==
  ASSUME SizesAllowed
  PROVE  Spec => []BytesInPlace
<1>1. ExtractInv => BytesInPlace
  BY DEF ExtractInv, ArchiveOK, DriverInv, FedInPlace, BytesInPlace, SizesAllowed, TailOrParts
<1> QED
  BY <1>1, ExtractInvariant, PTL

\* burst_downloader_fetch_cd_ranges implements AllOrError: it returns 0 only
\* with every range stored and stores none after it returned, whichever of
\* main and the callbacks started a range.
THEOREM RangesImplementAllOrError == Spec => RangesAllOrError
<1>1. Init => Ranges!Init
  <2> SUFFICES ASSUME Init PROVE Ranges!Init
    OBVIOUS
  <2>1. range_main = "loop" /\ range_buffers = {} /\ range_cancel = FALSE
    BY DEF Init, RangeInit
  <2>2. RangeOutcome = "running"
    BY <2>1 DEF RangeOutcome
  <2> QED
    BY <2>1, <2>2 DEF Ranges!Init
<1>2. ExtractInv /\ ExtractInv' /\ [Next]_vars => [Ranges!Next]_(Ranges!vars)
  <2> SUFFICES ASSUME ExtractInv, ExtractInv', [Next]_vars PROVE [Ranges!Next]_(Ranges!vars)
    OBVIOUS
  <2>1. UNCHANGED archive /\ (AnyRangeStep \/ UNCHANGED rangeVars)
    BY StepOf
  <2>2. ArchiveOK /\ RangeInv /\ RangeInv'
    BY DEF ExtractInv
  <2> QED
    BY <2>1, <2>2, RangeStepImplements
<1> QED
  BY <1>1, <1>2, ExtractInvariant, PTL DEF Spec, RangesAllOrError, Ranges!Safety
=============================================================================
