----------------------------- MODULE RangeFetch -----------------------------
(***************************************************************************)
(* burst_downloader_fetch_cd_ranges (cd_fetch.c): the main thread requests *)
(* the missing ranges of the central directory, up to max_concurrent at a  *)
(* time, and waits; the finish callbacks of the S3 client's threads store  *)
(* the buffers and request the remaining ranges.  Main and callbacks draw  *)
(* the ranges from one counter.  A step is a critical section of           *)
(* coord.mutex or a call of start_range_fetch_async, made without it.  The *)
(* body and headers callbacks of a request end in its finish callback: a   *)
(* request fails or delivers its whole range.                              *)
(***************************************************************************)
EXTENDS CdFetch

CONSTANT max_concurrent  \* downloader->max_concurrent_parts

ASSUME RangeFetchAssumption == max_concurrent \in Nat \ {0}

VARIABLES
  archive_size, central_dir_offset,  \* what the end records say
  range_main,           \* where the main thread is in the function
  range_idx,            \* the range main is starting
  next_range_to_start, ranges_in_flight, range_cancel, range_error,
  range_running,        \* ranges requested, without a finish callback yet
  range_starting,       \* ranges callbacks are about to request, outside the mutex
  range_storing,        \* ranges requested by callbacks that have yet to store and test the request
  range_notified,       \* main was woken from its condition variable
  range_buffers         \* ranges whose buffer was stored

rangeCoord == <<next_range_to_start, ranges_in_flight, range_cancel, range_error>>
rangeVars == <<range_main, range_idx, rangeCoord, range_running, range_starting,
               range_storing, range_notified, range_buffers>>

initial_start == InitialStart(archive_size)
cd_ranges == calculate_cd_fetch_ranges(central_dir_offset, initial_start)
total_ranges == Cardinality(cd_ranges)
RangeIndexes == 0..(total_ranges - 1)

\* ranges[i]: they lie in increasing order, one per part.
RangeAt(i) == CHOOSE r \in cd_ranges : r.start = ((central_dir_offset \div part_size) + i) * part_size

(***************************************************************************)
(* The main thread.                                                        *)
(***************************************************************************)

\* while (ranges_in_flight > 0) wait
AwaitRanges(in_flight) ==
  /\ range_notified' = FALSE
  /\ range_main' = IF in_flight > 0 THEN "waiting" ELSE "returned"

MayStart == ranges_in_flight < max_concurrent /\ next_range_to_start < total_ranges

RangeStartLoop ==
  /\ range_main = "loop"
  /\ IF MayStart
     THEN /\ range_idx' = next_range_to_start
          /\ next_range_to_start' = next_range_to_start + 1
          /\ ranges_in_flight' = ranges_in_flight + 1
          /\ range_main' = "starting"
          /\ UNCHANGED <<range_cancel, range_error, range_notified>>
     ELSE AwaitRanges(ranges_in_flight) /\ UNCHANGED <<range_idx, rangeCoord>>
  /\ UNCHANGED <<range_running, range_starting, range_storing, range_buffers>>

RangeMainStarts ==
  /\ range_main = "starting"
  /\ range_running' = range_running \cup {range_idx}
  /\ range_main' = "loop"
  /\ UNCHANGED <<range_idx, rangeCoord, range_starting, range_storing, range_notified,
                 range_buffers>>

RangeMainFailsToStart ==
  /\ range_main = "starting"
  /\ ranges_in_flight' = ranges_in_flight - 1
  /\ range_cancel' = TRUE
  /\ range_error' = -1
  /\ AwaitRanges(ranges_in_flight - 1)
  /\ UNCHANGED <<range_idx, next_range_to_start, range_running, range_starting, range_storing,
                 range_buffers>>

RangeWake ==
  /\ AwaitRanges(ranges_in_flight)
  /\ UNCHANGED <<range_idx, rangeCoord, range_running, range_starting, range_storing,
                 range_buffers>>

RangeMainWakes == range_main = "waiting" /\ range_notified /\ RangeWake
RangeMainWakesSpuriously == range_main = "waiting" /\ ~range_notified /\ RangeWake

(***************************************************************************)
(* The finish callback.                                                    *)
(***************************************************************************)

RangeErrorAfter(error) == IF error /\ ~range_cancel THEN -1 ELSE range_error

\* Mutant of RangeNotifiedAfter: a signal for every range but the last.
SignalWhileInFlight(in_flight) == range_notified \/ (in_flight > 0 /\ range_main = "waiting")
RangeNotifiedAfter(in_flight) == range_notified \/ (in_flight = 0 /\ range_main = "waiting")

\* Mutant of RangesLeft: the last range is left to nobody.
AllButLast == next_range_to_start < total_ranges - 1
RangesLeft == next_range_to_start < total_ranges

RangeFinish(i, error) ==
  LET cancel == range_cancel \/ error
      goesOn == ~cancel /\ RangesLeft
      in_flight == ranges_in_flight - 1 + (IF goesOn THEN 1 ELSE 0)
  IN /\ i \in range_running
     /\ range_running' = range_running \ {i}
     /\ range_cancel' = cancel
     /\ range_error' = RangeErrorAfter(error)
     /\ range_buffers' = IF error THEN range_buffers ELSE range_buffers \cup {i}
     /\ ranges_in_flight' = in_flight
     /\ IF goesOn
        THEN /\ next_range_to_start' = next_range_to_start + 1
             /\ range_starting' = range_starting \cup {next_range_to_start}
             /\ UNCHANGED range_notified
        ELSE /\ range_notified' = RangeNotifiedAfter(in_flight)
             /\ UNCHANGED <<next_range_to_start, range_starting>>
     /\ UNCHANGED <<range_main, range_idx, range_storing>>

RangeCallbackStarts(i) ==
  /\ i \in range_starting
  /\ range_starting' = range_starting \ {i}
  /\ range_running' = range_running \cup {i}
  /\ range_storing' = range_storing \cup {i}
  /\ UNCHANGED <<range_main, range_idx, rangeCoord, range_notified, range_buffers>>

\* The request is live when start_range_fetch_async stores it in its context
\* and tests it; then the callback returns.
RangeCallbackStores(i) ==
  /\ i \in range_storing
  /\ range_storing' = range_storing \ {i}
  /\ UNCHANGED <<range_main, range_idx, rangeCoord, range_running, range_starting,
                 range_notified, range_buffers>>

RangeCallbackFailsToStart(i) ==
  /\ i \in range_starting
  /\ range_starting' = range_starting \ {i}
  /\ ranges_in_flight' = ranges_in_flight - 1
  /\ range_cancel' = TRUE
  /\ range_error' = RangeErrorAfter(TRUE)
  /\ range_notified' = RangeNotifiedAfter(ranges_in_flight - 1)
  /\ UNCHANGED <<range_main, range_idx, next_range_to_start, range_running, range_storing,
                 range_buffers>>

(***************************************************************************)
(* Steps of the two sides, for the module that calls the function.         *)
(***************************************************************************)

RangeInit ==
  /\ range_main = "loop"
  /\ range_idx = 0
  /\ next_range_to_start = 0
  /\ ranges_in_flight = 0
  /\ range_cancel = FALSE
  /\ range_error = 0
  /\ range_running = {}
  /\ range_starting = {}
  /\ range_storing = {}
  /\ range_notified = FALSE
  /\ range_buffers = {}

RangeMainSteps ==
  RangeStartLoop \/ RangeMainStarts \/ RangeMainFailsToStart \/ RangeMainWakes

RangeCallbackSteps ==
  \E i \in RangeIndexes :
    \/ RangeFinish(i, TRUE) \/ RangeFinish(i, FALSE)
    \/ RangeCallbackStarts(i) \/ RangeCallbackStores(i) \/ RangeCallbackFailsToStart(i)

(***************************************************************************)
(* The function implements AllOrError.                                     *)
(***************************************************************************)

RangeOutcome ==
  IF range_main # "returned" THEN "running" ELSE IF range_error = 0 THEN "ok" ELSE "failed"

Ranges == INSTANCE AllOrError WITH
  needed <- RangeIndexes,
  done <- range_buffers,
  failed <- range_cancel,
  outcome <- RangeOutcome
=============================================================================
