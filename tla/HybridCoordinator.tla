------------------------- MODULE HybridCoordinator -------------------------
(***************************************************************************)
(* The hybrid download coordinator (cd_fetch.c), used when the directory   *)
(* starts before the tail buffer and the BRST comment gives a directory    *)
(* header inside it: the missing directory ranges are fetched while the    *)
(* parts the partial directory already describes are downloaded, and the   *)
(* other parts follow once the full directory is parsed.                   *)
(*                                                                         *)
(* A step is a critical section of coord->mutex, or something done outside *)
(* it: starting a request (hybrid_dispatch_next unlocks around it) and     *)
(* assembling and parsing the directory.  What a request returns is left   *)
(* open.                                                                   *)
(***************************************************************************)
EXTENDS CdFetch

CONSTANTS
  max_concurrent,  \* downloader->max_concurrent_parts
  ArchiveSizes     \* sizes of the archives considered

ASSUME HybridAssumption ==
  /\ max_concurrent \in Nat \ {0}
  /\ ArchiveSizes \subseteq Nat \ {0}

VARIABLES
  archive_size, central_dir_offset,
  files,               \* local header offsets of all entries
  partial_cd,          \* those the partial directory in the tail holds: a suffix
  main,                \* where hybrid_coordinator_run is
  main_item,           \* the work item main is starting
  prev_in_flight,      \* main's copy of in_flight before it dispatched
  in_flight, cancel_requested, first_error_code,
  cd_ranges_dispatched, cd_ranges_completed, cd_complete,
  assembling,          \* a callback is assembling and parsing the directory
  part_dispatched, part_complete,  \* sets of parts
  running,             \* requests without a finish callback yet
  starting,            \* items callbacks are starting, outside the mutex
  relocking,           \* callbacks that started an item and will lock again
  notified,
  result

archive == <<archive_size, central_dir_offset, files, partial_cd>>
errors == <<cancel_requested, first_error_code>>
cdState == <<cd_ranges_completed, cd_complete, assembling>>
mainVars == <<main, main_item, prev_in_flight, result>>
vars == <<archive, mainVars, in_flight, errors, cd_ranges_dispatched, cdState,
          part_dispatched, part_complete, running, starting, relocking, notified>>

initial_start == InitialStart(archive_size)
num_parts == NumParts(archive_size)
Parts == 0..(num_parts - 1)
cd_ranges_total == Cardinality(calculate_cd_fetch_ranges(central_dir_offset, initial_start))
PartOf(offset) == offset \div part_size

CdRange(i) == [kind |-> "cd", index |-> i]
PartItem(p) == [kind |-> "part", index |-> p]
NoItem == [kind |-> "none", index |-> 0]

(***************************************************************************)
(* The queues.                                                             *)
(***************************************************************************)

\* build_early_part_queue: the first known file that must be the first of
\* its part, and every part with a known file from there on.
Before(f) == {g \in partial_cd : g < f}
AnyKnownFile(f) == TRUE  \* mutant
FirstOfItsPart(f) ==
  \/ f = PartOf(f) * part_size
  \/ Before(f) # {} /\ PartOf(Max(Before(f))) < PartOf(f)

early_part_queue ==
  LET safe == {f \in partial_cd : FirstOfItsPart(f)}
  IN IF safe = {}
     THEN {}
     ELSE {p \in {PartOf(f) : f \in partial_cd} :
             p >= PartOf(Min(safe)) /\ p * part_size < initial_start}

\* build_late_part_queue: parts with body data that no segment covers.  The
\* queues are taken in order and skip what was dispatched meanwhile.
late_part_queue ==
  {p \in Parts : HasBody(p, central_dir_offset)}
    \ PartsInMemory(archive_size, central_dir_offset)

OneTooMany(flying) == flying > max_concurrent  \* mutant
AtLimit(flying) == flying >= max_concurrent

\* hybrid_dispatch_next's choice, given how many requests are in flight,
\* whether an error was seen and whether the full directory is there.
NextItem(flying, cancelled, complete) ==
  LET early == early_part_queue \ part_dispatched
      late == IF complete THEN late_part_queue \ part_dispatched ELSE {}
  IN IF cancelled \/ AtLimit(flying) THEN NoItem
     ELSE IF cd_ranges_dispatched < cd_ranges_total THEN CdRange(cd_ranges_dispatched)
     ELSE IF early # {} THEN PartItem(Min(early))
     ELSE IF late # {} THEN PartItem(Min(late))
     ELSE NoItem

Dispatched(item) ==
  /\ cd_ranges_dispatched' = cd_ranges_dispatched + (IF item.kind = "cd" THEN 1 ELSE 0)
  /\ part_dispatched' = part_dispatched
                          \cup (IF item.kind = "part" THEN {item.index} ELSE {})

(***************************************************************************)
(* hybrid_coordinator_run, on the main thread.                             *)
(***************************************************************************)

NoNotify(flying) == notified  \* mutant
NotifiedAfter(flying) == notified \/ (flying = 0 /\ main = "waiting")

\* Wait while requests are in flight; then return the error, or process what
\* is in memory if there is a full directory.  A directory that is being
\* parsed by a callback may or may not be seen.
AwaitWork(flying, cancelled, error_code) ==
  /\ notified' = FALSE
  /\ main_item' = NoItem
  /\ prev_in_flight' = 0
  /\ \/ /\ flying > 0
        /\ main' = "waiting"
        /\ UNCHANGED result
     \/ /\ flying = 0 /\ cancelled
        /\ main' = "returned"
        /\ result' = error_code
     \/ /\ flying = 0 /\ ~cancelled
        /\ cd_complete \/ assembling
        /\ main' = "buffered"
        /\ UNCHANGED result
     \/ /\ flying = 0 /\ ~cancelled
        /\ ~cd_complete
        /\ main' = "returned"
        /\ UNCHANGED result

\* A start that failed gives its slot back.
KeepsItsSlot == in_flight  \* mutant
AfterFailedStart == in_flight - 1

\* The loop that starts the first batch, from taking the mutex to leaving it.
MainDispatches ==
  LET stop == main = "relock" /\ in_flight = prev_in_flight
      item == IF stop THEN NoItem ELSE NextItem(in_flight, cancel_requested, cd_complete)
  IN /\ main \in {"begin", "relock"}
     /\ IF item # NoItem
        THEN /\ main' = "starting"
             /\ main_item' = item
             /\ prev_in_flight' = in_flight
             /\ in_flight' = in_flight + 1
             /\ Dispatched(item)
             /\ UNCHANGED <<notified, result>>
        ELSE /\ AwaitWork(in_flight, cancel_requested, first_error_code)
             /\ UNCHANGED <<in_flight, cd_ranges_dispatched, part_dispatched>>
     /\ UNCHANGED <<archive, errors, cdState, part_complete, running, starting, relocking>>

MainStartsItem ==
  /\ main = "starting"
  /\ running' = running \cup {main_item}
  /\ main' = "relock"
  /\ UNCHANGED <<archive, main_item, prev_in_flight, result, in_flight, errors,
                 cd_ranges_dispatched, cdState, part_dispatched, part_complete, starting,
                 relocking, notified>>

MainFailsToStart ==
  /\ main = "starting"
  /\ in_flight' = AfterFailedStart
  /\ cancel_requested' = TRUE
  /\ first_error_code' = -1
  /\ AwaitWork(AfterFailedStart, TRUE, -1)
  /\ UNCHANGED <<archive, cd_ranges_dispatched, cdState, part_dispatched, part_complete,
                 running, starting, relocking>>

Wake ==
  /\ AwaitWork(in_flight, cancel_requested, first_error_code)
  /\ UNCHANGED <<archive, in_flight, errors, cd_ranges_dispatched, cdState,
                 part_dispatched, part_complete, running, starting, relocking>>

MainWakes == main = "waiting" /\ notified /\ Wake
MainWakesSpuriously == main = "waiting" /\ ~notified /\ Wake

\* The parts in memory, in order; an error ends the function.
MainProcessesBuffered ==
  LET left == PartsInMemory(archive_size, central_dir_offset) \ part_complete
  IN /\ main = "buffered"
     /\ \/ /\ left = {}
           /\ main' = "returned"
           /\ UNCHANGED <<part_complete, result>>
        \/ /\ left # {}
           /\ part_complete' = part_complete \cup {Min(left)}
           /\ UNCHANGED <<main, result>>
        \/ /\ left # {}
           /\ main' = "returned"
           /\ result' = -1
           /\ UNCHANGED part_complete
     /\ UNCHANGED <<archive, main_item, prev_in_flight, in_flight, errors,
                    cd_ranges_dispatched, cdState, part_dispatched, running, starting,
                    relocking, notified>>

(***************************************************************************)
(* The finish callbacks, on the threads of the S3 client.                  *)
(***************************************************************************)

\* The end of both callbacks: dispatch one item, or signal main.  "flying"
\* is in_flight after the callback's own request left it.
DispatchOrSignal(flying, cancelled, complete) ==
  LET item == NextItem(flying, cancelled, complete)
  IN IF item # NoItem
     THEN /\ in_flight' = flying + 1
          /\ starting' = starting \cup {item}
          /\ Dispatched(item)
          /\ UNCHANGED notified
     ELSE /\ in_flight' = flying
          /\ notified' = NotifiedAfter(flying)
          /\ UNCHANGED <<starting, cd_ranges_dispatched, part_dispatched>>

RecordError(error) ==
  /\ cancel_requested' = (cancel_requested \/ error)
  /\ first_error_code' = IF error /\ ~cancel_requested THEN -1 ELSE first_error_code

FinishPart(p, error) ==
  /\ PartItem(p) \in running
  /\ running' = running \ {PartItem(p)}
  /\ part_complete' = part_complete \cup {p}
  /\ RecordError(error)
  /\ DispatchOrSignal(in_flight - 1, cancel_requested \/ error, cd_complete)
  /\ UNCHANGED <<archive, mainVars, cdState, relocking>>

\* The last directory range makes its callback release the mutex and
\* assemble the directory; in_flight no longer counts it.
FinishCdRange(i, error) ==
  LET completed == cd_ranges_completed + (IF error THEN 0 ELSE 1)
      last == ~error /\ completed = cd_ranges_total
  IN /\ CdRange(i) \in running
     /\ running' = running \ {CdRange(i)}
     /\ cd_ranges_completed' = completed
     /\ RecordError(error)
     /\ IF last
        THEN /\ assembling' = TRUE
             /\ in_flight' = in_flight - 1
             /\ UNCHANGED <<starting, cd_ranges_dispatched, part_dispatched, notified>>
        ELSE /\ DispatchOrSignal(in_flight - 1, cancel_requested \/ error, cd_complete)
             /\ UNCHANGED assembling
     /\ UNCHANGED <<archive, mainVars, cd_complete, part_complete, relocking>>

ParseWithoutDispatch(ok) ==  \* mutant
  /\ assembling
  /\ assembling' = FALSE
  /\ cd_complete' = ok
  /\ cancel_requested' = (cancel_requested \/ ~ok)
  /\ first_error_code' = IF ok THEN first_error_code ELSE -1
  /\ notified' = NotifiedAfter(in_flight)
  /\ UNCHANGED <<archive, mainVars, in_flight, cd_ranges_dispatched, cd_ranges_completed,
                 part_dispatched, part_complete, running, starting, relocking>>

\* hybrid_assemble_and_parse_cd returned and the callback locks again.
ParseDirectory(ok) ==
  /\ assembling
  /\ assembling' = FALSE
  /\ cd_complete' = ok
  /\ cancel_requested' = (cancel_requested \/ ~ok)
  /\ first_error_code' = IF ok THEN first_error_code ELSE -1
  /\ DispatchOrSignal(in_flight, cancel_requested \/ ~ok, ok)
  /\ UNCHANGED <<archive, mainVars, cd_ranges_completed, part_complete, running, relocking>>

CallbackStartsItem(item) ==
  /\ item \in starting
  /\ starting' = starting \ {item}
  /\ running' = running \cup {item}
  /\ relocking' = relocking + 1
  /\ UNCHANGED <<archive, mainVars, in_flight, errors, cd_ranges_dispatched, cdState,
                 part_dispatched, part_complete, notified>>

CallbackFailsToStart(item) ==
  /\ item \in starting
  /\ starting' = starting \ {item}
  /\ in_flight' = AfterFailedStart
  /\ cancel_requested' = TRUE
  /\ first_error_code' = -1
  /\ notified' = NotifiedAfter(AfterFailedStart)
  /\ UNCHANGED <<archive, mainVars, cd_ranges_dispatched, cdState, part_dispatched,
                 part_complete, running, relocking>>

\* Back in the callback after a start that worked.
CallbackSignals ==
  /\ relocking > 0
  /\ relocking' = relocking - 1
  /\ notified' = NotifiedAfter(in_flight)
  /\ UNCHANGED <<archive, mainVars, in_flight, errors, cd_ranges_dispatched, cdState,
                 part_dispatched, part_complete, running, starting>>

(***************************************************************************)
(* Specification.                                                          *)
(***************************************************************************)

\* The directory starts before the tail buffer, and the tail holds the
\* headers of the last entries, one at least (burst_downloader_extract).
Init ==
  /\ archive_size \in ArchiveSizes
  /\ central_dir_offset \in 1..(initial_start - 1)
  /\ files \in {s \in SUBSET (0..(central_dir_offset - 1)) : 0 \in s}
  /\ \E first \in files : partial_cd = {f \in files : f >= first}
  /\ main = "begin"
  /\ main_item = NoItem
  /\ prev_in_flight = 0
  /\ in_flight = 0
  /\ cancel_requested = FALSE
  /\ first_error_code = 0
  /\ cd_ranges_dispatched = 0
  /\ cd_ranges_completed = 0
  /\ cd_complete = FALSE
  /\ assembling = FALSE
  /\ part_dispatched = {}
  /\ part_complete = {}
  /\ running = {}
  /\ starting = {}
  /\ relocking = 0
  /\ notified = FALSE
  /\ result = 0

MainSteps ==
  \/ MainDispatches \/ MainStartsItem \/ MainFailsToStart \/ MainWakes
  \/ MainProcessesBuffered

CallbackSteps ==
  \/ \E p \in Parts : FinishPart(p, TRUE) \/ FinishPart(p, FALSE)
  \/ \E i \in 0..(cd_ranges_total - 1) : FinishCdRange(i, TRUE) \/ FinishCdRange(i, FALSE)
  \/ ParseDirectory(TRUE) \/ ParseDirectory(FALSE)
  \/ \E item \in starting : CallbackStartsItem(item) \/ CallbackFailsToStart(item)
  \/ CallbackSignals

Next == MainSteps \/ MainWakesSpuriously \/ CallbackSteps

\* The S3 client ends every request with a finish callback, and no thread is
\* suspended for ever.
Fairness == WF_vars(MainSteps) /\ WF_vars(CallbackSteps)

Spec == Init /\ [][Next]_vars /\ Fairness

(***************************************************************************)
(* Properties.                                                             *)
(***************************************************************************)

Items == {CdRange(i) : i \in 0..(cd_ranges_total - 1)} \cup {PartItem(p) : p \in Parts}

\* Counters and bitmaps stay within their arrays, and at most max_concurrent
\* requests are in flight (struct hybrid_download_coordinator).
TypeOK ==
  /\ main \in {"begin", "relock", "starting", "waiting", "buffered", "returned"}
  /\ main_item \in Items \cup {NoItem}
  /\ prev_in_flight \in 0..max_concurrent /\ in_flight \in 0..max_concurrent
  /\ cancel_requested \in BOOLEAN /\ cd_complete \in BOOLEAN /\ assembling \in BOOLEAN
  /\ first_error_code \in {0, -1} /\ result \in {0, -1}
  /\ cd_ranges_dispatched \in 0..cd_ranges_total /\ cd_ranges_completed \in 0..cd_ranges_total
  /\ part_dispatched \subseteq Parts /\ part_complete \subseteq Parts
  /\ running \subseteq Items /\ starting \subseteq Items
  /\ relocking \in Nat /\ notified \in BOOLEAN

\* in_flight counts exactly the requests that still owe a finish callback and
\* the starts under way, although hybrid_dispatch_next releases the mutex in
\* the middle of a callback.
InFlightIsExact ==
  in_flight = Cardinality(running) + Cardinality(starting)
                + (IF main = "starting" THEN 1 ELSE 0)

\* "We can only queue a part if we have metadata for ALL files starting in
\* that part": and for the file that continues into it.
EarlyPartsAreKnown ==
  \A p \in early_part_queue :
    /\ \A f \in files : PartOf(f) = p => f \in partial_cd
    /\ p * part_size \notin files =>
         Max({f \in files : f < p * part_size}) \in partial_cd

AllPartsComplete ==
  \A p \in Parts : HasBody(p, central_dir_offset) => p \in part_complete

\* hybrid_coordinator_run returns 0 only when every part that holds file data
\* was processed ("Wait for all work to complete").
SuccessMeansAllParts == main = "returned" /\ result = 0 => AllPartsComplete

\* Callbacks dispatch one item each: when no request is in flight, nothing is
\* being started or parsed and there was no error, no part of either queue is
\* left behind.
NoWorkStranded ==
  /\ main \in {"waiting", "buffered", "returned"}
  /\ in_flight = 0 /\ ~assembling /\ ~cancel_requested
  => early_part_queue \cup late_part_queue \subseteq part_complete

\* hybrid_coordinator_run returns: no signal is lost, whichever thread ends
\* last.
EventuallyReturns == <>(main = "returned")
=============================================================================
