------------------------ MODULE DownloadCoordinator ------------------------
(***************************************************************************)
(* burst_downloader_extract_concurrent (s3_operations.c): the main thread  *)
(* starts part downloads up to max_concurrent, the finish callbacks of the *)
(* S3 client's threads start the following ones, main waits for the last   *)
(* and then processes the parts that were already in memory.  A step is a  *)
(* critical section of coord.mutex, or a call made without it              *)
(* (start_part_download_async).  Whether a request succeeds, and whether a *)
(* part's data can be processed, is left open; cancelling a request has no *)
(* effect beyond the failure it may end with anyway.                       *)
(***************************************************************************)
EXTENDS CdFetch

CONSTANTS
  max_concurrent,  \* downloader->max_concurrent_parts
  ArchiveSizes     \* sizes of the archives considered

ASSUME CoordinatorAssumption ==
  /\ max_concurrent \in Nat \ {0}
  /\ ArchiveSizes \subseteq Nat \ {0}

VARIABLES
  archive_size, central_dir_offset,  \* what the end records say
  main,                \* where the main thread is
  part_idx,            \* main's loop index
  parts_in_flight, next_part_to_start, cancel_requested, first_error_code,
  running,             \* running[p]: requests for part p without a finish callback yet
  starting,            \* starting[p]: callbacks about to start part p, outside the mutex
  storing,             \* storing[p]: callbacks whose request for part p is live, and who
                       \* have yet to store it in its context and test it
  notified,            \* main was woken from its condition variable
  processed,           \* parts whose data was processed and finalized without error
  result               \* what the function returned

archive == <<archive_size, central_dir_offset>>
coord == <<parts_in_flight, next_part_to_start, cancel_requested, first_error_code>>
vars == <<archive, main, part_idx, coord, running, starting, storing, notified, processed,
          result>>

num_parts == NumParts(archive_size)
Parts == 0..(num_parts - 1)
part_has_full_body_data == PartsInMemory(archive_size, central_dir_offset)
OneFewer == num_parts - Cardinality(part_has_full_body_data) - 1  \* mutant
parts_to_download == num_parts - Cardinality(part_has_full_body_data)

Bump(f, p, n) == [f EXCEPT ![p] = @ + n]

OneTooMany == parts_in_flight <= max_concurrent  \* mutant
BelowLimit == parts_in_flight < max_concurrent

\* Only the first error is kept.
OnlyLaterErrors(error) ==  \* mutant
  IF error /\ cancel_requested THEN -1 ELSE first_error_code
ErrorAfter(error) ==
  IF error /\ ~cancel_requested THEN -1 ELSE first_error_code

NoNotify(in_flight) == notified  \* mutant
\* "Signal if all parts done": a notify only reaches a thread that waits.
NotifiedAfter(in_flight) == notified \/ (in_flight = 0 /\ main = "waiting")

(***************************************************************************)
(* The main thread.                                                        *)
(***************************************************************************)

ReturnAtOnceOnError(in_flight, error_code) ==  \* mutant
  /\ notified' = FALSE
  /\ main' = IF error_code # 0 THEN "returned"
             ELSE IF in_flight > 0 THEN "waiting" ELSE "buffered"
  /\ result' = error_code
  /\ part_idx' = 0

\* while (parts_in_flight > 0) wait: main sleeps, or goes on to the parts in
\* memory unless there was an error.
AwaitDownloads(in_flight, error_code) ==
  /\ notified' = FALSE
  /\ main' = IF in_flight > 0 THEN "waiting"
             ELSE IF error_code = 0 THEN "buffered" ELSE "returned"
  /\ result' = IF in_flight > 0 THEN result ELSE error_code
  /\ part_idx' = IF in_flight > 0 THEN part_idx ELSE 0

\* One round of the start loop, from taking the mutex to leaving it.
MainStartLoop ==
  LET candidates == {p \in Parts : p >= part_idx /\ p \notin part_has_full_body_data}
      p == Min(candidates)
  IN /\ main = "loop"
     /\ IF BelowLimit /\ candidates # {}
        THEN /\ parts_in_flight' = parts_in_flight + 1
             /\ next_part_to_start' = p + 1
             /\ part_idx' = p
             /\ main' = "starting"
             /\ UNCHANGED <<cancel_requested, first_error_code, notified, result>>
        ELSE AwaitDownloads(parts_in_flight, first_error_code) /\ UNCHANGED coord
     /\ UNCHANGED <<archive, running, starting, storing, processed>>

\* start_part_download_async called by main: the request exists, and may
\* finish, before main takes the mutex again.
MainStartsPart ==
  /\ main = "starting"
  /\ running' = Bump(running, part_idx, 1)
  /\ part_idx' = part_idx + 1
  /\ main' = "loop"
  /\ UNCHANGED <<archive, coord, starting, storing, notified, processed, result>>

KeepsItsSlot ==  \* mutant
  /\ main = "starting"
  /\ cancel_requested' = TRUE
  /\ first_error_code' = -1
  /\ AwaitDownloads(parts_in_flight, -1)
  /\ UNCHANGED <<archive, parts_in_flight, next_part_to_start, running, starting, storing,
                 processed>>

MainFailsToStart ==
  /\ main = "starting"
  /\ parts_in_flight' = parts_in_flight - 1
  /\ cancel_requested' = TRUE
  /\ first_error_code' = -1
  /\ AwaitDownloads(parts_in_flight - 1, -1)
  /\ UNCHANGED <<archive, next_part_to_start, running, starting, storing, processed>>

\* aws_condition_variable_wait returns, after a notify or for no reason.
Wake ==
  /\ AwaitDownloads(parts_in_flight, first_error_code)
  /\ UNCHANGED <<archive, coord, running, starting, storing, processed>>

MainWakes == main = "waiting" /\ notified /\ Wake
MainWakesSpuriously == main = "waiting" /\ ~notified /\ Wake

\* process_part_with_body_data for the parts in memory, in order.
MainProcessesBuffered ==
  LET left == {p \in part_has_full_body_data : p >= part_idx}
      p == Min(left)
  IN /\ main = "buffered"
     /\ \/ /\ left = {}
           /\ main' = "returned"
           /\ UNCHANGED <<part_idx, processed, result>>
        \/ /\ left # {}
           /\ processed' = processed \cup {p}
           /\ part_idx' = p + 1
           /\ UNCHANGED <<main, result>>
        \/ /\ left # {}
           /\ result' = -1
           /\ main' = "returned"
           /\ UNCHANGED <<part_idx, processed>>
     /\ UNCHANGED <<archive, coord, running, starting, storing, notified>>

(***************************************************************************)
(* s3_stream_finish_callback, on any thread of the S3 client.              *)
(***************************************************************************)

\* The mutex is taken once: the part leaves the flight, the next one joins
\* it or main may be woken.
FinishDownload(p, error) ==
  LET cancel == cancel_requested \/ error
      goesOn == ~cancel /\ next_part_to_start < parts_to_download
      in_flight == parts_in_flight - 1 + (IF goesOn THEN 1 ELSE 0)
  IN /\ running[p] > 0
     /\ running' = Bump(running, p, -1)
     /\ cancel_requested' = cancel
     /\ first_error_code' = ErrorAfter(error)
     /\ processed' = IF error THEN processed ELSE processed \cup {p}
     /\ parts_in_flight' = in_flight
     /\ IF goesOn
        THEN /\ next_part_to_start' = next_part_to_start + 1
             /\ starting' = Bump(starting, next_part_to_start, 1)
             /\ UNCHANGED notified
        ELSE /\ notified' = NotifiedAfter(in_flight)
             /\ UNCHANGED <<next_part_to_start, starting>>
     /\ UNCHANGED <<archive, main, part_idx, storing, result>>

\* start_part_download_async called by a callback.  From here on the request
\* may finish, while the callback still has to store it in the context the
\* request was given, and to test what it stored.
CallbackStartsPart(p) ==
  /\ starting[p] > 0
  /\ starting' = Bump(starting, p, -1)
  /\ running' = Bump(running, p, 1)
  /\ storing' = Bump(storing, p, 1)
  /\ UNCHANGED <<archive, main, part_idx, coord, notified, processed, result>>

\* ctx->meta_request is assigned and found not to be NULL, and the callback
\* ends.  Nothing keeps main from having freed the context by then; what the
\* callback makes of the freed memory is not followed any further.
CallbackStoresRequest(p) ==
  /\ storing[p] > 0
  /\ storing' = Bump(storing, p, -1)
  /\ UNCHANGED <<archive, main, part_idx, coord, running, starting, notified, processed,
                 result>>

CallbackFailsToStart(p) ==
  /\ starting[p] > 0
  /\ starting' = Bump(starting, p, -1)
  /\ parts_in_flight' = parts_in_flight - 1
  /\ cancel_requested' = TRUE
  /\ first_error_code' = ErrorAfter(TRUE)
  /\ notified' = NotifiedAfter(parts_in_flight - 1)
  /\ UNCHANGED <<archive, main, part_idx, next_part_to_start, running, storing, processed,
                 result>>

(***************************************************************************)
(* Specification.                                                          *)
(***************************************************************************)

\* Called for archives of several parts, whose directory the tail or the
\* ranges before it have given.
Init ==
  /\ archive_size \in ArchiveSizes
  /\ num_parts > 1
  /\ central_dir_offset \in 1..(archive_size - 1)
  /\ main = "loop"
  /\ part_idx = 0
  /\ parts_in_flight = 0
  /\ next_part_to_start = 0
  /\ cancel_requested = FALSE
  /\ first_error_code = 0
  /\ running = [p \in Parts |-> 0]
  /\ starting = [p \in Parts |-> 0]
  /\ storing = [p \in Parts |-> 0]
  /\ notified = FALSE
  /\ processed = {}
  /\ result = 0

MainSteps ==
  MainStartLoop \/ MainStartsPart \/ MainFailsToStart \/ MainWakes \/ MainProcessesBuffered

CallbackSteps(p) ==
  \/ FinishDownload(p, TRUE) \/ FinishDownload(p, FALSE)
  \/ CallbackStartsPart(p) \/ CallbackStoresRequest(p) \/ CallbackFailsToStart(p)

Next == MainSteps \/ MainWakesSpuriously \/ (\E p \in Parts : CallbackSteps(p))

\* The S3 client ends every request with a finish callback, and neither
\* thread is suspended for ever.  Nothing relies on spurious wake-ups.
Fairness ==
  /\ WF_vars(MainSteps)
  /\ WF_vars(\E p \in Parts : CallbackSteps(p))

Spec == Init /\ [][Next]_vars /\ Fairness

(***************************************************************************)
(* Properties.                                                             *)
(***************************************************************************)

\* The coordinator's counters stay within their arrays, and never more than
\* max_concurrent downloads are in flight (struct download_coordinator).
TypeOK ==
  /\ main \in {"loop", "starting", "waiting", "buffered", "returned"}
  /\ part_idx \in 0..num_parts
  /\ parts_in_flight \in 0..max_concurrent
  /\ next_part_to_start \in 0..num_parts
  /\ cancel_requested \in BOOLEAN
  /\ first_error_code \in {0, -1} /\ result \in {0, -1}
  /\ running \in [Parts -> Nat] /\ starting \in [Parts -> Nat]
  /\ storing \in [Parts -> Nat]
  /\ notified \in BOOLEAN
  /\ processed \subseteq Parts

\* The requests that still owe a callback and the starts under way in
\* callbacks, numbered per part: a part may be requested more than once.
Owed == UNION {{p} \X (1..(running[p] + starting[p])) : p \in Parts}

\* parts_in_flight counts exactly the requests that still owe a callback and
\* the starts that are under way, main's included: main can neither return
\* too early nor wait for a callback that was already made.
InFlightIsExact ==
  parts_in_flight = Cardinality(Owed) + (IF main = "starting" THEN 1 ELSE 0)

\* extract_concurrent returns 0 only when every part that holds file data was
\* processed, by a download or from memory, although the callbacks count
\* parts_to_download from part 0 and skip nothing.
SuccessMeansAllParts ==
  main = "returned" /\ result = 0 =>
    \A p \in Parts : HasBody(p, central_dir_offset) => p \in processed

\* Once main has left its wait every request has had its finish callback and
\* no start is to come, although main and the callbacks start parts twice and
\* outside the mutex: nothing is still to lock the coordinator's mutex, and no
\* processor that main destroys is still fed.
EveryRequestFinished ==
  main \in {"buffered", "returned"} => \A p \in Parts : running[p] + starting[p] = 0

\* "Wait for S3 downloads to complete", then "Cleanup: destroy all part
\* contexts": no callback is still at work on a context or on the coordinator
\* when main has freed them.
NoCallbackAfterReturn ==
  main = "returned" => \A p \in Parts : running[p] + starting[p] + storing[p] = 0

Job == INSTANCE AllOrError WITH
  needed <- {p \in Parts : HasBody(p, central_dir_offset)},
  done <- processed,
  failed <- cancel_requested \/ result # 0,
  outcome <- IF main # "returned" THEN "running" ELSE IF result = 0 THEN "ok" ELSE "failed"

\* extract_concurrent implements AllOrError: a part that failed, or could not
\* be started, by main or by a callback, is reported, nothing else is, no
\* part is touched after the return.
PartsAllOrError == Job!Safety

\* No notify is lost between main's test of parts_in_flight and its wait, so
\* that extract_concurrent does return.
EventuallyReturns == Job!Returns
=============================================================================
