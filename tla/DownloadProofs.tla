--------------------------- MODULE DownloadProofs ---------------------------
(***************************************************************************)
(* Proofs about burst_downloader_extract_concurrent, for every archive,    *)
(* every position of the directory and every limit on parallel downloads:  *)
(* the count of requests in flight is exact, every request has finished    *)
(* when main leaves its wait, a return of 0 means that all data was        *)
(* processed, and the coordinator implements AllOrError.                   *)
(***************************************************************************)
EXTENDS DownloadCoordinator, CdFetchProofs

(***************************************************************************)
(* Counting the requests of all parts.                                     *)
(***************************************************************************)

OwedBy(run, start, S) == UNION {{p} \X (1..(run[p] + start[p])) : p \in S}

LEMMA OwedMembers ==
  ASSUME NEW S, NEW run \in [S -> Nat], NEW start \in [S -> Nat]
  PROVE  \A x : x \in OwedBy(run, start, S) <=>
                  \E p \in S : \E k \in 1..(run[p] + start[p]) : x = <<p, k>>
  BY DEF OwedBy

\* One request more for part p is one more element.
LEMMA OwedMore ==
  ASSUME NEW S, NEW run \in [S -> Nat], NEW start \in [S -> Nat],
         NEW run2 \in [S -> Nat], NEW start2 \in [S -> Nat], NEW p \in S,
         run2[p] + start2[p] = run[p] + start[p] + 1,
         \A q \in S \ {p} : run2[q] + start2[q] = run[q] + start[q]
  PROVE  /\ OwedBy(run2, start2, S) = OwedBy(run, start, S) \cup {<<p, run[p] + start[p] + 1>>}
         /\ OwedBy(run, start, S) = OwedBy(run2, start2, S) \ {<<p, run[p] + start[p] + 1>>}
         /\ <<p, run[p] + start[p] + 1>> \in OwedBy(run2, start2, S)
         /\ <<p, run[p] + start[p] + 1>> \notin OwedBy(run, start, S)
<1> DEFINE A == OwedBy(run, start, S)
           B == OwedBy(run2, start2, S)
           n == run[p] + start[p] + 1
<1>1. \A x : x \in A <=> \E q \in S : \E k \in 1..(run[q] + start[q]) : x = <<q, k>>
  BY DEF OwedBy
<1>2. \A x : x \in B <=> \E q \in S : \E k \in 1..(run2[q] + start2[q]) : x = <<q, k>>
  BY OwedMembers
<1>3. n \in Nat /\ n \in 1..(run2[p] + start2[p])
  OBVIOUS
<1> HIDE DEF A, B
<1>4. <<p, n>> \in B
  BY <1>2, <1>3
<1>5. <<p, n>> \notin A
  <2>1. ASSUME NEW q \in S, NEW k \in 1..(run[q] + start[q]), <<p, n>> = <<q, k>>
        PROVE  FALSE
    BY <2>1
  <2> QED
    BY <1>1, <2>1
<1>6. ASSUME NEW x \in A PROVE x \in B
  <2>1. PICK q \in S : \E k \in 1..(run[q] + start[q]) : x = <<q, k>>
    BY <1>1
  <2>2. 1..(run[q] + start[q]) \subseteq 1..(run2[q] + start2[q])
    <3>1. CASE q = p
      BY <3>1
    <3>2. CASE q # p
      BY <3>2
    <3> QED
      BY <3>1, <3>2
  <2> QED
    BY <1>2, <2>1, <2>2
<1>7. ASSUME NEW x \in B, x # <<p, n>> PROVE x \in A
  <2>1. PICK q \in S : \E k \in 1..(run2[q] + start2[q]) : x = <<q, k>>
    BY <1>2
  <2>2. PICK k \in 1..(run2[q] + start2[q]) : x = <<q, k>>
    BY <2>1
  <2>3. k \in 1..(run[q] + start[q])
    <3>1. CASE q = p
      BY <1>7, <2>2, <3>1
    <3>2. CASE q # p
      BY <3>2
    <3> QED
      BY <3>1, <3>2
  <2> QED
    BY <1>1, <2>2, <2>3
<1>8. B = A \cup {<<p, n>>}
  BY <1>4, <1>6, <1>7
<1>9. A = B \ {<<p, n>>}
  BY <1>5, <1>6, <1>7
<1> QED
  BY <1>4, <1>5, <1>8, <1>9 DEF A, B

LEMMA OwedPlusOne ==
  ASSUME NEW S, NEW run \in [S -> Nat], NEW start \in [S -> Nat],
         NEW run2 \in [S -> Nat], NEW start2 \in [S -> Nat], NEW p \in S,
         run2[p] + start2[p] = run[p] + start[p] + 1,
         \A q \in S \ {p} : run2[q] + start2[q] = run[q] + start[q],
         IsFiniteSet(OwedBy(run, start, S))
  PROVE  /\ IsFiniteSet(OwedBy(run2, start2, S))
         /\ Cardinality(OwedBy(run2, start2, S)) = Cardinality(OwedBy(run, start, S)) + 1
<1> DEFINE x == <<p, run[p] + start[p] + 1>>
           A == OwedBy(run, start, S)
           B == OwedBy(run2, start2, S)
<1>1. B = A \cup {x} /\ x \notin A
  BY OwedMore
<1> HIDE DEF x, A, B
<1>2. IsFiniteSet(A)
  BY DEF A
<1>3. IsFiniteSet(A \cup {x}) /\ Cardinality(A \cup {x}) = Cardinality(A) + 1
  BY <1>1, <1>2, FS_AddElement
<1> QED
  BY <1>1, <1>3 DEF A, B

LEMMA OwedMinusOne ==
  ASSUME NEW S, NEW run \in [S -> Nat], NEW start \in [S -> Nat],
         NEW run2 \in [S -> Nat], NEW start2 \in [S -> Nat], NEW p \in S,
         run[p] + start[p] = run2[p] + start2[p] + 1,
         \A q \in S \ {p} : run2[q] + start2[q] = run[q] + start[q],
         IsFiniteSet(OwedBy(run, start, S))
  PROVE  /\ IsFiniteSet(OwedBy(run2, start2, S))
         /\ Cardinality(OwedBy(run2, start2, S)) = Cardinality(OwedBy(run, start, S)) - 1
<1> DEFINE x == <<p, run2[p] + start2[p] + 1>>
           A == OwedBy(run, start, S)
           B == OwedBy(run2, start2, S)
<1>1. \A q \in S \ {p} : run[q] + start[q] = run2[q] + start2[q]
  OBVIOUS
<1>2. B = A \ {x} /\ x \in A
  BY <1>1, OwedMore
<1> HIDE DEF x, A, B
<1>3. IsFiniteSet(A)
  BY DEF A
<1>4. IsFiniteSet(A \ {x}) /\ Cardinality(A \ {x}) = Cardinality(A) - 1
  BY <1>2, <1>3, FS_RemoveElement
<1> QED
  BY <1>2, <1>4 DEF A, B

\* A request that is passed on keeps the set.
LEMMA OwedSame ==
  ASSUME NEW S, NEW run \in [S -> Nat], NEW start \in [S -> Nat],
         NEW run2 \in [S -> Nat], NEW start2 \in [S -> Nat],
         \A q \in S : run2[q] + start2[q] = run[q] + start[q]
  PROVE  OwedBy(run2, start2, S) = OwedBy(run, start, S)
  BY DEF OwedBy

\* Nothing is owed exactly when no part has a request.
LEMMA OwedNone ==
  ASSUME NEW S, NEW run \in [S -> Nat], NEW start \in [S -> Nat],
         IsFiniteSet(OwedBy(run, start, S))
  PROVE  /\ Cardinality(OwedBy(run, start, S)) \in Nat
         /\ Cardinality(OwedBy(run, start, S)) = 0 <=> \A p \in S : run[p] = 0 /\ start[p] = 0
<1> DEFINE A == OwedBy(run, start, S)
<1>1. \A x : x \in A <=> \E q \in S : \E k \in 1..(run[q] + start[q]) : x = <<q, k>>
  BY OwedMembers
<1> HIDE DEF A
<1>2. IsFiniteSet(A)
  BY DEF A
<1>3. Cardinality(A) \in Nat
  BY <1>2, FS_CardinalityType
<1>4. Cardinality(A) = 0 <=> A = {}
  BY <1>2, FS_EmptySet
<1>5. A = {} => \A p \in S : run[p] = 0 /\ start[p] = 0
  <2> SUFFICES ASSUME A = {}, NEW p \in S, ~(run[p] = 0 /\ start[p] = 0)
               PROVE  FALSE
    OBVIOUS
  <2>1. run[p] \in Nat /\ start[p] \in Nat
    OBVIOUS
  <2>2. 1 \in 1..(run[p] + start[p])
    BY <2>1
  <2>3. <<p, 1>> \in A
    BY <1>1, <2>2
  <2> QED
    BY <2>3
<1>6. (\A p \in S : run[p] = 0 /\ start[p] = 0) => A = {}
  <2> SUFFICES ASSUME \A p \in S : run[p] = 0 /\ start[p] = 0, NEW x \in A
               PROVE  FALSE
    OBVIOUS
  <2>1. PICK q \in S : \E k \in 1..(run[q] + start[q]) : x = <<q, k>>
    BY <1>1
  <2>2. run[q] = 0 /\ start[q] = 0
    OBVIOUS
  <2> QED
    BY <2>1, <2>2
<1> QED
  BY <1>3, <1>4, <1>5, <1>6 DEF A

(***************************************************************************)
(* What is fixed for an archive.                                           *)
(***************************************************************************)

ArchiveOK == archive_size \in Nat \ {0} /\ central_dir_offset \in 1..(archive_size - 1)

\* The parts that hold file data, and those of them that must be downloaded.
Needed == {p \in Parts : HasBody(p, central_dir_offset)}
Missing == Needed \ part_has_full_body_data

LEMMA ArchiveFixed ==
  ASSUME UNCHANGED archive
  PROVE  /\ num_parts' = num_parts /\ Parts' = Parts
         /\ part_has_full_body_data' = part_has_full_body_data
         /\ parts_to_download' = parts_to_download
         /\ Needed' = Needed /\ Missing' = Missing
         /\ ArchiveOK' = ArchiveOK
<1>1. archive_size' = archive_size /\ central_dir_offset' = central_dir_offset
  BY DEF archive
<1>2. num_parts' = num_parts
  BY <1>1 DEF num_parts
<1>3. Parts' = Parts
  BY <1>2 DEF Parts
<1>4. part_has_full_body_data' = part_has_full_body_data
  BY <1>1 DEF part_has_full_body_data
<1>5. parts_to_download' = parts_to_download
  BY <1>2, <1>4 DEF parts_to_download
<1>6. Needed' = Needed
  BY <1>1, <1>3 DEF Needed
<1>7. Missing' = Missing
  BY <1>4, <1>6 DEF Missing
<1>8. ArchiveOK' = ArchiveOK
  BY <1>1 DEF ArchiveOK
<1> QED
  BY <1>2, <1>3, <1>4, <1>5, <1>6, <1>7, <1>8

\* Covered parts are part of the archive and the others come first: a
\* callback that counts to parts_to_download reaches every missing part.
LEMMA ArchiveFacts ==
  ASSUME ArchiveOK
  PROVE  /\ num_parts \in Nat \ {0}
         /\ Parts = 0..(num_parts - 1)
         /\ part_has_full_body_data \subseteq Parts
         /\ parts_to_download \in 0..num_parts
         /\ Needed \subseteq Parts /\ Missing \subseteq Needed
         /\ \A p \in Missing : p \notin part_has_full_body_data /\ p < parts_to_download
         /\ Needed \subseteq Missing \cup part_has_full_body_data
<1> DEFINE n == archive_size
           c == central_dir_offset
<1>1. n \in Nat \ {0} /\ c \in 1..(n - 1)
  BY DEF ArchiveOK
<1>2. num_parts \in Nat \ {0}
  BY <1>1, NumPartsCover DEF num_parts
<1>3. /\ PartsInMemory(n, c) \subseteq 0..(NumParts(n) - 1)
      /\ Cardinality(PartsInMemory(n, c)) \in 0..NumParts(n)
      /\ \A p \in 0..(NumParts(n) - 1) :
           HasBody(p, c) /\ p \notin PartsInMemory(n, c)
             => p < NumParts(n) - Cardinality(PartsInMemory(n, c))
  BY <1>1, DownloadedPartsComeFirst
<1>4. parts_to_download \in 0..num_parts
  BY <1>2, <1>3 DEF parts_to_download, part_has_full_body_data, num_parts
<1>5. part_has_full_body_data \subseteq Parts
  BY <1>3 DEF part_has_full_body_data, Parts, num_parts
<1>6. \A p \in Missing : p \notin part_has_full_body_data /\ p < parts_to_download
  BY <1>3 DEF Missing, Needed, part_has_full_body_data, Parts, num_parts, parts_to_download
<1> QED
  BY <1>2, <1>4, <1>5, <1>6 DEF Parts, Needed, Missing

(***************************************************************************)
(* The inductive invariant.                                                *)
(***************************************************************************)

\* Somebody has this part: it is processed or about to be.
Taken(p) ==
  \/ p \in processed
  \/ running[p] > 0 \/ starting[p] > 0
  \/ main = "starting" /\ part_idx = p

Flight == IsFiniteSet(Owed) /\ InFlightIsExact

ErrorKept == first_error_code = IF cancel_requested THEN -1 ELSE 0

\* Main's loop index does not pass the shared counter, although main sets
\* that counter back when it starts a part.
IndexBehind ==
  /\ main = "loop" => part_idx <= next_part_to_start
  /\ main = "starting" => part_idx < next_part_to_start /\ part_idx < num_parts

\* The counter leaves no part behind unless there was an error.
NoneSkipped ==
  ~cancel_requested => \A p \in Missing : p < next_part_to_start => Taken(p)

AllReached == \A p \in Missing : p < next_part_to_start

WaitsForAll ==
  main = "waiting" /\ ~cancel_requested /\ parts_in_flight = 0 => AllReached

Quiet == main \in {"buffered", "returned"} => parts_in_flight = 0

\* How far the parts in memory are processed.
BufferedSoFar ==
  main = "buffered" =>
    /\ ~cancel_requested
    /\ Missing \subseteq processed
    /\ \A p \in part_has_full_body_data : p < part_idx => p \in processed

ResultKnown ==
  /\ main # "returned" => result = 0
  /\ main = "returned" /\ result = 0 => Needed \subseteq processed

CoordInv ==
  /\ ArchiveOK /\ TypeOK /\ Flight /\ ErrorKept /\ IndexBehind /\ NoneSkipped
  /\ WaitsForAll /\ Quiet /\ BufferedSoFar /\ ResultKnown

LEMMA OwedNow == Owed = OwedBy(running, starting, Parts)
  BY DEF Owed, OwedBy

LEMMA OwedNext ==
  ASSUME UNCHANGED archive
  PROVE  Owed' = OwedBy(running', starting', Parts)
<1>1. Parts' = Parts
  BY ArchiveFixed
<1> QED
  BY <1>1 DEF Owed, OwedBy

\* A state in which nothing is in flight owes no callback.
LEMMA FlightIsEmpty ==
  ASSUME CoordInv, parts_in_flight = 0
  PROVE  main # "starting" /\ \A p \in Parts : running[p] = 0 /\ starting[p] = 0
<1>1. running \in [Parts -> Nat] /\ starting \in [Parts -> Nat]
  BY DEF CoordInv, TypeOK
<1>2. IsFiniteSet(OwedBy(running, starting, Parts))
  BY OwedNow DEF CoordInv, Flight
<1>3. parts_in_flight = Cardinality(OwedBy(running, starting, Parts))
                          + (IF main = "starting" THEN 1 ELSE 0)
  BY OwedNow DEF CoordInv, Flight, InFlightIsExact
<1>4. /\ Cardinality(OwedBy(running, starting, Parts)) \in Nat
      /\ Cardinality(OwedBy(running, starting, Parts)) = 0
           <=> \A p \in Parts : running[p] = 0 /\ starting[p] = 0
  BY <1>1, <1>2, OwedNone
<1>5. Cardinality(OwedBy(running, starting, Parts)) = 0 /\ main # "starting"
  BY <1>3, <1>4
<1> QED
  BY <1>4, <1>5

\* A callback that is still to come is counted, beside main's start.
LEMMA CallbackIsCounted ==
  ASSUME CoordInv, NEW p \in Parts, running[p] > 0 \/ starting[p] > 0
  PROVE  /\ parts_in_flight >= 1 /\ parts_in_flight <= max_concurrent
         /\ main \notin {"buffered", "returned"}
         /\ main = "starting" => parts_in_flight >= 2
<1>1. running \in [Parts -> Nat] /\ starting \in [Parts -> Nat] /\ parts_in_flight \in 0..max_concurrent
  BY DEF CoordInv, TypeOK
<1>2. IsFiniteSet(OwedBy(running, starting, Parts))
  BY OwedNow DEF CoordInv, Flight
<1>3. parts_in_flight = Cardinality(OwedBy(running, starting, Parts))
                          + (IF main = "starting" THEN 1 ELSE 0)
  BY OwedNow DEF CoordInv, Flight, InFlightIsExact
<1>4. /\ Cardinality(OwedBy(running, starting, Parts)) \in Nat
      /\ Cardinality(OwedBy(running, starting, Parts)) = 0
           <=> \A q \in Parts : running[q] = 0 /\ starting[q] = 0
  BY <1>1, <1>2, OwedNone
<1>5. Cardinality(OwedBy(running, starting, Parts)) # 0
  BY <1>1, <1>4
<1>6. parts_in_flight >= 1 /\ (main = "starting" => parts_in_flight >= 2)
  BY <1>3, <1>4, <1>5
<1> QED
  BY <1>1, <1>6, CoordinatorAssumption DEF CoordInv, Quiet

(***************************************************************************)
(* The initial state and the steps of main.                                *)
(***************************************************************************)

LEMMA InitHolds == Init => CoordInv
<1> SUFFICES ASSUME Init PROVE CoordInv
  OBVIOUS
<1>1. ArchiveOK
  BY CoordinatorAssumption DEF Init, ArchiveOK
<1>2. num_parts \in Nat \ {0} /\ Parts = 0..(num_parts - 1)
  BY <1>1, ArchiveFacts
<1>3. running \in [Parts -> Nat] /\ starting \in [Parts -> Nat]
        /\ storing \in [Parts -> Nat]
  BY DEF Init
<1>4. TypeOK
  <2>1. cancel_requested \in BOOLEAN /\ notified \in BOOLEAN
    BY Zenon DEF Init
  <2>2. processed \subseteq Parts
    BY DEF Init
  <2>3. part_idx \in 0..num_parts /\ parts_in_flight \in 0..max_concurrent
          /\ next_part_to_start \in 0..num_parts
    BY <1>2, CoordinatorAssumption DEF Init
  <2> QED
    BY <1>3, <2>1, <2>2, <2>3 DEF Init, TypeOK
<1>5. Flight
  <2>1. \A p \in Parts : running[p] = 0 /\ starting[p] = 0
    BY DEF Init
  <2>2. OwedBy(running, starting, Parts) = {}
    BY <2>1 DEF OwedBy
  <2>3. IsFiniteSet(Owed) /\ Cardinality(Owed) = 0
    BY <2>2, OwedNow, FS_EmptySet
  <2> QED
    BY <2>3 DEF Init, Flight, InFlightIsExact
<1>6. NoneSkipped
  BY <1>1, <1>2, ArchiveFacts DEF Init, NoneSkipped
<1> QED
  BY <1>1, <1>4, <1>5, <1>6
     DEF Init, CoordInv, ErrorKept, IndexBehind, WaitsForAll, Quiet, BufferedSoFar, ResultKnown

\* Main waits, or goes on when nothing is in flight.
LEMMA AwaitKeeps ==
  ASSUME CoordInv, main \in {"loop", "waiting"},
         main = "loop" /\ ~cancel_requested /\ parts_in_flight = 0 => AllReached,
         AwaitDownloads(parts_in_flight, first_error_code),
         UNCHANGED <<archive, coord, running, starting, storing, processed>>
  PROVE  CoordInv'
<1>1. /\ num_parts' = num_parts /\ Parts' = Parts /\ Missing' = Missing /\ Needed' = Needed
      /\ part_has_full_body_data' = part_has_full_body_data
      /\ ArchiveOK' = ArchiveOK
  BY ArchiveFixed
<1>2. num_parts \in Nat \ {0} /\ Parts = 0..(num_parts - 1)
        /\ part_has_full_body_data \subseteq Parts /\ Missing \subseteq Parts
  BY ArchiveFacts DEF CoordInv
<1>3. UNCHANGED <<parts_in_flight, next_part_to_start, cancel_requested, first_error_code,
                  running, starting, storing, processed>>
  BY DEF coord
<1>4. TypeOK'
  <2>1. notified' \in BOOLEAN
    BY Zenon DEF AwaitDownloads
  <2>2. part_idx' \in 0..num_parts /\ result' \in {0, -1}
          /\ main' \in {"loop", "starting", "waiting", "buffered", "returned"}
    BY <1>2 DEF CoordInv, TypeOK, AwaitDownloads
  <2> QED
    BY <1>1, <1>3, <2>1, <2>2 DEF CoordInv, TypeOK
<1>5. Flight'
  <2>1. Owed' = Owed
    BY <1>3, OwedNow, OwedNext
  <2>2. main' # "starting" /\ main # "starting"
    BY DEF AwaitDownloads
  <2> QED
    BY <1>3, <2>1, <2>2 DEF CoordInv, Flight, InFlightIsExact
<1>6. ErrorKept' /\ IndexBehind' /\ Quiet'
  BY <1>3 DEF CoordInv, ErrorKept, IndexBehind, Quiet, AwaitDownloads, TypeOK
<1>7. NoneSkipped'
  BY <1>1, <1>3 DEF CoordInv, NoneSkipped, Taken, AwaitDownloads
<1>8. WaitsForAll'
  BY <1>1, <1>3 DEF CoordInv, WaitsForAll, AllReached, AwaitDownloads
<1>9. BufferedSoFar'
  <2> SUFFICES ASSUME main' = "buffered"
               PROVE  /\ ~cancel_requested /\ Missing \subseteq processed
                      /\ \A p \in part_has_full_body_data : ~(p < part_idx')
    BY <1>1, <1>3 DEF BufferedSoFar
  <2>1. parts_in_flight = 0 /\ first_error_code = 0 /\ part_idx' = 0
    BY DEF AwaitDownloads, CoordInv, TypeOK
  <2>2. ~cancel_requested
    BY <2>1 DEF CoordInv, ErrorKept
  <2>3. AllReached
    BY <2>1, <2>2 DEF CoordInv, WaitsForAll
  <2>4. main # "starting" /\ \A p \in Parts : running[p] = 0 /\ starting[p] = 0
    BY <2>1, FlightIsEmpty
  <2>5. Missing \subseteq processed
    BY <1>2, <2>2, <2>3, <2>4 DEF CoordInv, NoneSkipped, AllReached, Taken
  <2> QED
    BY <1>2, <2>1, <2>2, <2>5
<1>10. ResultKnown'
  <2>1. result = 0
    BY DEF CoordInv, ResultKnown
  <2>2. main' # "returned" => result' = 0
    BY <2>1 DEF AwaitDownloads, CoordInv, TypeOK
  <2>3. main' = "returned" => result' # 0
    BY DEF AwaitDownloads, CoordInv, TypeOK
  <2> QED
    BY <2>2, <2>3 DEF ResultKnown
<1> QED
  BY <1>1, <1>4, <1>5, <1>6, <1>7, <1>8, <1>9, <1>10 DEF CoordInv

\* Main takes the next part that is not in memory.
LEMMA StartLoopKeeps ==
  ASSUME CoordInv, MainStartLoop
  PROVE  CoordInv'
<1>1. /\ num_parts' = num_parts /\ Parts' = Parts /\ Missing' = Missing /\ Needed' = Needed
      /\ part_has_full_body_data' = part_has_full_body_data
      /\ ArchiveOK' = ArchiveOK
  BY ArchiveFixed DEF MainStartLoop
<1>2. num_parts \in Nat \ {0} /\ Parts = 0..(num_parts - 1)
        /\ part_has_full_body_data \subseteq Parts /\ Missing \subseteq Parts
  BY ArchiveFacts DEF CoordInv
<1> DEFINE candidates == {p \in Parts : p >= part_idx /\ p \notin part_has_full_body_data}
<1>3. main = "loop"
  BY DEF MainStartLoop
<1>4. CASE ~(BelowLimit /\ candidates # {})
  <2>1. AwaitDownloads(parts_in_flight, first_error_code)
          /\ UNCHANGED <<archive, coord, running, starting, storing, processed>>
    BY <1>4 DEF MainStartLoop
  <2>2. ~cancel_requested /\ parts_in_flight = 0 => AllReached
    <3> SUFFICES ASSUME parts_in_flight = 0, NEW p \in Missing
                 PROVE  p < next_part_to_start
      BY DEF AllReached
    <3>1. candidates = {}
      BY <1>4, CoordinatorAssumption DEF BelowLimit
    <3>2. p \in Parts /\ p \notin part_has_full_body_data
      BY <1>2, ArchiveFacts DEF CoordInv
    <3>3. ~(p >= part_idx)
      BY <3>1, <3>2
    <3> QED
      BY <1>2, <1>3, <3>2, <3>3 DEF CoordInv, IndexBehind, TypeOK
  <2> QED
    BY <1>3, <2>1, <2>2, AwaitKeeps
<1>5. CASE BelowLimit /\ candidates # {}
  <2> DEFINE p == Min(candidates)
  <2>1. p \in candidates /\ \A q \in candidates : p <= q
    <3>1. candidates \subseteq Nat
      BY <1>2
    <3> HIDE DEF candidates
    <3> QED
      BY <1>5, <3>1, MinOfNaturals
  <2>2. /\ parts_in_flight' = parts_in_flight + 1
        /\ next_part_to_start' = p + 1
        /\ part_idx' = p
        /\ main' = "starting"
        /\ UNCHANGED <<cancel_requested, first_error_code, notified, result>>
        /\ UNCHANGED <<running, starting, storing, processed>>
    BY <1>5 DEF MainStartLoop
  <2> HIDE DEF p
  <2>3. p \in 0..(num_parts - 1) /\ p >= part_idx
    BY <1>2, <2>1
  <2>4. TypeOK'
    <3>1. parts_in_flight' \in 0..max_concurrent
      BY <1>5, <2>2, CoordinatorAssumption DEF CoordInv, TypeOK, BelowLimit
    <3>2. part_idx' \in 0..num_parts /\ next_part_to_start' \in 0..num_parts
      BY <1>2, <2>2, <2>3
    <3> QED
      BY <1>1, <2>2, <3>1, <3>2 DEF CoordInv, TypeOK
  <2>5. Flight'
    <3>1. Owed' = Owed
      BY <2>2, OwedNow, OwedNext DEF MainStartLoop
    <3>2. Cardinality(Owed) \in Nat
      BY FS_CardinalityType DEF CoordInv, Flight
    <3> QED
      BY <1>3, <2>2, <3>1, <3>2 DEF CoordInv, Flight, InFlightIsExact
  <2>6. ErrorKept' /\ IndexBehind' /\ WaitsForAll' /\ Quiet' /\ BufferedSoFar' /\ ResultKnown'
    BY <1>1, <1>2, <1>3, <2>2, <2>3
       DEF CoordInv, ErrorKept, IndexBehind, WaitsForAll, Quiet, BufferedSoFar, ResultKnown
  <2>7. NoneSkipped'
    <3> SUFFICES ASSUME ~cancel_requested, NEW q \in Missing, q < p + 1
                 PROVE  Taken(q)'
      BY <1>1, <2>2 DEF NoneSkipped
    <3>1. q \in Parts /\ q \notin part_has_full_body_data /\ q \in Nat
      BY <1>2, ArchiveFacts DEF CoordInv
    <3>2. CASE q = p
      BY <2>2, <3>2 DEF Taken
    <3>3. CASE q # p
      <4>1. q < p
        BY <2>3, <3>1, <3>3
      <4>2. ~(q >= part_idx)
        BY <2>1, <2>3, <3>1, <4>1
      <4>3. q < next_part_to_start
        BY <1>2, <1>3, <3>1, <4>2 DEF CoordInv, IndexBehind, TypeOK
      <4>4. Taken(q)
        BY <4>3 DEF CoordInv, NoneSkipped
      <4> QED
        BY <1>3, <2>2, <4>4 DEF Taken
    <3> QED
      BY <3>2, <3>3
  <2> QED
    BY <1>1, <2>4, <2>5, <2>6, <2>7 DEF CoordInv
<1> QED
  BY <1>4, <1>5

\* The request for main's part is made.
LEMMA StartsPartKeeps ==
  ASSUME CoordInv, MainStartsPart
  PROVE  CoordInv'
<1>1. /\ num_parts' = num_parts /\ Parts' = Parts /\ Missing' = Missing /\ Needed' = Needed
      /\ part_has_full_body_data' = part_has_full_body_data
      /\ ArchiveOK' = ArchiveOK
  BY ArchiveFixed DEF MainStartsPart
<1>2. num_parts \in Nat \ {0} /\ Parts = 0..(num_parts - 1)
        /\ part_has_full_body_data \subseteq Parts /\ Missing \subseteq Parts
  BY ArchiveFacts DEF CoordInv
<1>3. /\ main = "starting" /\ main' = "loop" /\ part_idx' = part_idx + 1
      /\ running' = [running EXCEPT ![part_idx] = @ + 1]
      /\ UNCHANGED <<parts_in_flight, next_part_to_start, cancel_requested, first_error_code>>
      /\ UNCHANGED <<starting, storing, notified, processed, result>>
  BY DEF MainStartsPart, Bump, coord
<1>4. part_idx \in Parts
  BY <1>2, <1>3 DEF CoordInv, IndexBehind, TypeOK
<1>5. running \in [Parts -> Nat] /\ starting \in [Parts -> Nat]
        /\ storing \in [Parts -> Nat]
  BY DEF CoordInv, TypeOK
<1>6. running' \in [Parts -> Nat]
        /\ running'[part_idx] = running[part_idx] + 1
        /\ \A q \in Parts \ {part_idx} : running'[q] = running[q]
  BY <1>3, <1>4, <1>5
<1>7. TypeOK'
  <2>1. part_idx' \in 0..num_parts
    BY <1>2, <1>3, <1>4
  <2> QED
    BY <1>1, <1>3, <1>5, <1>6, <2>1 DEF CoordInv, TypeOK
<1>8. Flight'
  <2>1. IsFiniteSet(OwedBy(running, starting, Parts))
    BY OwedNow DEF CoordInv, Flight
  <2>2. running'[part_idx] + starting'[part_idx] = running[part_idx] + starting[part_idx] + 1
    BY <1>3, <1>4, <1>5, <1>6
  <2>3. \A q \in Parts \ {part_idx} : running'[q] + starting'[q] = running[q] + starting[q]
    BY <1>3, <1>6
  <2>4. starting' \in [Parts -> Nat]
    BY <1>3, <1>5
  <2>5. /\ IsFiniteSet(OwedBy(running', starting', Parts))
        /\ Cardinality(OwedBy(running', starting', Parts))
             = Cardinality(OwedBy(running, starting, Parts)) + 1
    <3>1. /\ running \in [Parts -> Nat] /\ starting \in [Parts -> Nat]
          /\ running' \in [Parts -> Nat] /\ starting' \in [Parts -> Nat]
      BY <1>5, <1>6, <2>4
    <3> QED
      BY <1>4, <2>1, <2>2, <2>3, <3>1, OwedPlusOne
  <2>6. IsFiniteSet(Owed') /\ Cardinality(Owed') = Cardinality(Owed) + 1
    BY <2>5, OwedNow, OwedNext DEF MainStartsPart
  <2>7. Cardinality(Owed) \in Nat
    BY FS_CardinalityType DEF CoordInv, Flight
  <2> QED
    BY <1>3, <2>6, <2>7 DEF CoordInv, Flight, InFlightIsExact
<1>9. ErrorKept' /\ IndexBehind' /\ WaitsForAll' /\ Quiet' /\ BufferedSoFar' /\ ResultKnown'
  <2>1. part_idx + 1 <= next_part_to_start
    BY <1>2, <1>3, <1>4 DEF CoordInv, IndexBehind, TypeOK
  <2> QED
    BY <1>3, <2>1
       DEF CoordInv, ErrorKept, IndexBehind, WaitsForAll, Quiet, BufferedSoFar, ResultKnown
<1>10. NoneSkipped'
  <2> SUFFICES ASSUME ~cancel_requested, NEW q \in Missing, q < next_part_to_start
               PROVE  Taken(q)'
    BY <1>1, <1>3 DEF NoneSkipped
  <2>1. Taken(q) /\ q \in Parts
    BY <1>2 DEF CoordInv, NoneSkipped
  <2>2. running[part_idx] \in Nat
    BY <1>4, <1>5
  <2> QED
    BY <1>3, <1>4, <1>5, <1>6, <2>1, <2>2 DEF Taken
<1> QED
  BY <1>1, <1>7, <1>8, <1>9, <1>10 DEF CoordInv

LEMMA FailsToStartKeeps ==
  ASSUME CoordInv, MainFailsToStart
  PROVE  CoordInv'
<1>1. /\ num_parts' = num_parts /\ Parts' = Parts /\ Missing' = Missing /\ Needed' = Needed
      /\ part_has_full_body_data' = part_has_full_body_data
      /\ ArchiveOK' = ArchiveOK
  BY ArchiveFixed DEF MainFailsToStart
<1>2. num_parts \in Nat \ {0} /\ Parts = 0..(num_parts - 1)
        /\ part_has_full_body_data \subseteq Parts /\ Missing \subseteq Parts
  BY ArchiveFacts DEF CoordInv
<1>3. /\ main = "starting" /\ parts_in_flight' = parts_in_flight - 1
      /\ cancel_requested' = TRUE /\ first_error_code' = -1
      /\ UNCHANGED <<next_part_to_start, running, starting, storing, processed>>
  BY DEF MainFailsToStart
<1>4. /\ notified' = FALSE
      /\ main' = IF parts_in_flight - 1 > 0 THEN "waiting" ELSE "returned"
      /\ result' = IF parts_in_flight - 1 > 0 THEN result ELSE -1
      /\ part_idx' = IF parts_in_flight - 1 > 0 THEN part_idx ELSE 0
  BY DEF MainFailsToStart, AwaitDownloads
<1>5. Cardinality(Owed) \in Nat
  BY FS_CardinalityType DEF CoordInv, Flight
<1>6. parts_in_flight = Cardinality(Owed) + 1
  BY <1>3 DEF CoordInv, Flight, InFlightIsExact
<1>7. TypeOK'
  <2>1. cancel_requested' \in BOOLEAN /\ notified' \in BOOLEAN
    BY <1>3, <1>4, Zenon
  <2>2. parts_in_flight' \in 0..max_concurrent
    BY <1>3, <1>5, <1>6, CoordinatorAssumption DEF CoordInv, TypeOK
  <2>3. part_idx' \in 0..num_parts /\ result' \in {0, -1}
          /\ main' \in {"loop", "starting", "waiting", "buffered", "returned"}
    BY <1>2, <1>4 DEF CoordInv, TypeOK
  <2> QED
    BY <1>1, <1>3, <2>1, <2>2, <2>3 DEF CoordInv, TypeOK
<1>8. Flight'
  <2>1. Owed' = Owed
    BY <1>3, OwedNow, OwedNext DEF MainFailsToStart
  <2> QED
    BY <1>3, <1>4, <1>5, <1>6, <2>1 DEF CoordInv, Flight, InFlightIsExact
<1>9. ErrorKept' /\ IndexBehind' /\ NoneSkipped' /\ WaitsForAll' /\ BufferedSoFar'
  BY <1>3, <1>4 DEF ErrorKept, IndexBehind, NoneSkipped, WaitsForAll, BufferedSoFar
<1>10. Quiet' /\ ResultKnown'
  BY <1>3, <1>4, <1>5, <1>6 DEF CoordInv, Quiet, ResultKnown
<1> QED
  BY <1>1, <1>7, <1>8, <1>9, <1>10 DEF CoordInv

LEMMA WakeKeeps ==
  ASSUME CoordInv, main = "waiting", Wake
  PROVE  CoordInv'
  BY AwaitKeeps DEF Wake

\* The parts in memory are worked off in order.
LEMMA BufferedKeeps ==
  ASSUME CoordInv, MainProcessesBuffered
  PROVE  CoordInv'
<1>1. /\ num_parts' = num_parts /\ Parts' = Parts /\ Missing' = Missing /\ Needed' = Needed
      /\ part_has_full_body_data' = part_has_full_body_data
      /\ ArchiveOK' = ArchiveOK
  BY ArchiveFixed DEF MainProcessesBuffered
<1>2. num_parts \in Nat \ {0} /\ Parts = 0..(num_parts - 1)
        /\ part_has_full_body_data \subseteq Parts /\ Missing \subseteq Parts
  BY ArchiveFacts DEF CoordInv
<1> DEFINE left == {p \in part_has_full_body_data : p >= part_idx}
           p == Min(left)
<1>3. /\ main = "buffered"
      /\ UNCHANGED <<parts_in_flight, next_part_to_start, cancel_requested, first_error_code>>
      /\ UNCHANGED <<running, starting, storing, notified>>
  BY DEF MainProcessesBuffered, coord
<1>4. \/ left = {} /\ main' = "returned" /\ UNCHANGED <<part_idx, processed, result>>
      \/ /\ left # {} /\ processed' = processed \cup {p} /\ part_idx' = p + 1
         /\ UNCHANGED <<main, result>>
      \/ left # {} /\ result' = -1 /\ main' = "returned" /\ UNCHANGED <<part_idx, processed>>
  BY DEF MainProcessesBuffered
<1>5. left # {} => p \in part_has_full_body_data /\ p >= part_idx /\ \A q \in left : p <= q
  <2>1. left \subseteq Nat
    <3>1. part_has_full_body_data \subseteq Nat
      BY <1>2
    <3> QED
      BY <3>1
  <2>2. left # {} => p \in left /\ \A q \in left : p <= q
    <3> HIDE DEF left
    <3> QED
      BY <2>1, MinOfNaturals
  <2> QED
    BY <2>2
<1> HIDE DEF p
<1>6. left # {} => p \in Parts
  BY <1>2, <1>5
<1>7. result = 0
  BY <1>3 DEF CoordInv, ResultKnown
<1>8. TypeOK'
  <2>1. part_idx' \in 0..num_parts /\ result' \in {0, -1} /\ processed' \subseteq Parts
          /\ main' \in {"loop", "starting", "waiting", "buffered", "returned"}
    <3> HIDE DEF left
    <3>1. part_idx \in 0..num_parts /\ processed \subseteq Parts
      BY DEF CoordInv, TypeOK
    <3>2. left # {} => p + 1 \in 0..num_parts
      BY <1>2, <1>6
    <3>3. left # {} => processed \cup {p} \subseteq Parts
      BY <1>6, <3>1
    <3> QED
      BY <1>3, <1>4, <1>7, <3>1, <3>2, <3>3
  <2> QED
    BY <1>1, <1>3, <2>1 DEF CoordInv, TypeOK
<1>9. main' \in {"buffered", "returned"}
  BY <1>3, <1>4
<1>10. Flight'
  <2>1. Owed' = Owed
    BY <1>3, OwedNow, OwedNext DEF MainProcessesBuffered
  <2> QED
    BY <1>3, <1>9, <2>1 DEF CoordInv, Flight, InFlightIsExact
<1>11. ErrorKept' /\ IndexBehind' /\ WaitsForAll' /\ Quiet'
  BY <1>3, <1>9 DEF CoordInv, ErrorKept, IndexBehind, WaitsForAll, Quiet
<1>12. NoneSkipped'
  BY <1>1, <1>3, <1>4 DEF CoordInv, NoneSkipped, Taken
<1>13. BufferedSoFar'
  <2> SUFFICES ASSUME main' = "buffered"
               PROVE  /\ ~cancel_requested /\ Missing \subseteq processed'
                      /\ \A q \in part_has_full_body_data : q < part_idx' => q \in processed'
    BY <1>1, <1>3 DEF BufferedSoFar
  <2>1. left # {} /\ processed' = processed \cup {p} /\ part_idx' = p + 1
    BY <1>3, <1>4
  <2>2. ~cancel_requested /\ Missing \subseteq processed'
    BY <1>3, <2>1 DEF CoordInv, BufferedSoFar
  <2>3. ASSUME NEW q \in part_has_full_body_data, q < p + 1
        PROVE  q \in processed'
    <3>1. q \in Nat /\ p \in Nat /\ part_idx \in Nat
      BY <1>2, <1>6, <2>1 DEF CoordInv, TypeOK
    <3>2. CASE q < part_idx
      BY <1>3, <2>1, <3>2 DEF CoordInv, BufferedSoFar
    <3>3. CASE q >= part_idx
      BY <1>5, <2>1, <2>3, <3>1, <3>3
    <3> QED
      BY <3>1, <3>2, <3>3
  <2> QED
    BY <2>1, <2>2, <2>3
<1>14. ResultKnown'
  <2>1. ASSUME main' = "returned", result' = 0 PROVE Needed \subseteq processed'
    <3>1. left = {} /\ processed' = processed
      BY <1>3, <1>4, <2>1
    <3>2. ASSUME NEW q \in part_has_full_body_data PROVE q \in processed
      <4>1. q < part_idx
        BY <1>2, <3>1 DEF CoordInv, TypeOK
      <4> QED
        BY <1>3, <4>1 DEF CoordInv, BufferedSoFar
    <3>3. Missing \subseteq processed
      BY <1>3 DEF CoordInv, BufferedSoFar
    <3> QED
      BY <3>1, <3>2, <3>3, ArchiveFacts DEF CoordInv
  <2>2. main' # "returned" => result' = 0
    BY <1>3, <1>4, <1>7
  <2> QED
    BY <1>1, <2>1, <2>2 DEF ResultKnown
<1> QED
  BY <1>1, <1>8, <1>10, <1>11, <1>12, <1>13, <1>14 DEF CoordInv

(***************************************************************************)
(* The steps of the callbacks.                                             *)
(***************************************************************************)

\* A download ends: its slot goes to the next part, or is given back.
LEMMA FinishKeeps ==
  ASSUME CoordInv, NEW p \in Parts, NEW error \in BOOLEAN, FinishDownload(p, error)
  PROVE  CoordInv'
<1>1. /\ num_parts' = num_parts /\ Parts' = Parts /\ Missing' = Missing /\ Needed' = Needed
      /\ part_has_full_body_data' = part_has_full_body_data
      /\ ArchiveOK' = ArchiveOK
  BY ArchiveFixed DEF FinishDownload
<1>2. num_parts \in Nat \ {0} /\ Parts = 0..(num_parts - 1)
        /\ part_has_full_body_data \subseteq Parts /\ Missing \subseteq Parts
  BY ArchiveFacts DEF CoordInv
<1> DEFINE cancel == cancel_requested \/ error
           goesOn == ~cancel /\ next_part_to_start < parts_to_download
<1>3. /\ running[p] > 0
      /\ running' = [running EXCEPT ![p] = @ - 1]
      /\ cancel_requested' = cancel
      /\ first_error_code' = IF error /\ ~cancel_requested THEN -1 ELSE first_error_code
      /\ processed' = IF error THEN processed ELSE processed \cup {p}
      /\ UNCHANGED <<main, part_idx, storing, result>>
  BY DEF FinishDownload, Bump, ErrorAfter
<1>4. goesOn =>
        /\ parts_in_flight' = parts_in_flight - 1 + 1
        /\ next_part_to_start' = next_part_to_start + 1
        /\ starting' = [starting EXCEPT ![next_part_to_start] = @ + 1]
        /\ notified' = notified
  BY DEF FinishDownload, Bump
<1>5. ~goesOn =>
        /\ parts_in_flight' = parts_in_flight - 1 + 0
        /\ next_part_to_start' = next_part_to_start
        /\ starting' = starting
        /\ notified' = NotifiedAfter(parts_in_flight - 1 + 0)
  BY DEF FinishDownload
<1>6. running \in [Parts -> Nat] /\ starting \in [Parts -> Nat]
        /\ parts_in_flight \in Nat /\ next_part_to_start \in Nat /\ parts_to_download \in 0..num_parts
        /\ cancel_requested \in BOOLEAN /\ notified \in BOOLEAN
  BY ArchiveFacts DEF CoordInv, TypeOK
<1>7. /\ parts_in_flight >= 1 /\ parts_in_flight <= max_concurrent
      /\ main \notin {"buffered", "returned"}
      /\ main = "starting" => parts_in_flight >= 2
  BY <1>3, CallbackIsCounted
<1>8. running' \in [Parts -> Nat] /\ running'[p] = running[p] - 1
        /\ \A q \in Parts \ {p} : running'[q] = running[q]
  BY <1>3, <1>6
<1>9. goesOn => next_part_to_start \in Parts
  BY <1>2, <1>6
<1>10. starting' \in [Parts -> Nat] /\ \A q \in Parts : starting'[q] >= starting[q]
  <2>1. CASE goesOn
    <3>1. starting' = [starting EXCEPT ![next_part_to_start] = @ + 1]
      BY <1>4, <2>1
    <3> QED
      BY <1>6, <1>9, <2>1, <3>1
  <2>2. CASE ~goesOn
    BY <1>5, <1>6, <2>2
  <2> QED
    BY <2>1, <2>2
<1> HIDE DEF goesOn
<1>11. TypeOK'
  <2>1. parts_in_flight' \in 0..max_concurrent
    BY <1>4, <1>5, <1>6, <1>7, CoordinatorAssumption
  <2>2. next_part_to_start' \in 0..num_parts
    <3>1. next_part_to_start \in 0..num_parts
      BY DEF CoordInv, TypeOK
    <3>2. goesOn => next_part_to_start + 1 \in 0..num_parts
      BY <1>2, <1>9
    <3> QED
      BY <1>4, <1>5, <3>1, <3>2
  <2>3. notified' \in BOOLEAN
    <3>1. CASE goesOn
      BY <1>4, <1>6, <3>1
    <3>2. CASE ~goesOn
      BY <1>5, <3>2, Zenon DEF NotifiedAfter
    <3> QED
      BY <3>1, <3>2
  <2>4. cancel_requested' \in BOOLEAN
    BY <1>3, Zenon
  <2>5. first_error_code' \in {0, -1} /\ processed' \subseteq Parts
    BY <1>3 DEF CoordInv, TypeOK
  <2> QED
    BY <1>1, <1>3, <1>8, <1>10, <2>1, <2>2, <2>3, <2>4, <2>5 DEF CoordInv, TypeOK
<1>12. Flight'
  <2>1. IsFiniteSet(OwedBy(running, starting, Parts))
    BY OwedNow DEF CoordInv, Flight
  <2>2. /\ IsFiniteSet(OwedBy(running', starting, Parts))
        /\ Cardinality(OwedBy(running', starting, Parts))
             = Cardinality(OwedBy(running, starting, Parts)) - 1
    <3>1. running[p] + starting[p] = running'[p] + starting[p] + 1
      BY <1>6, <1>8
    <3>2. \A q \in Parts \ {p} : running'[q] + starting[q] = running[q] + starting[q]
      BY <1>8
    <3> QED
      BY <1>6, <1>8, <2>1, <3>1, <3>2, OwedMinusOne
  <2>3. Cardinality(Owed) \in Nat
    BY FS_CardinalityType DEF CoordInv, Flight
  <2>4. Cardinality(OwedBy(running', starting, Parts)) = Cardinality(Owed) - 1
    BY <2>2, OwedNow
  <2>5. CASE goesOn
    <3>1. PICK r \in Parts : starting' = [starting EXCEPT ![r] = @ + 1]
      BY <1>4, <1>9, <2>5
    <3>2. running'[r] + starting'[r] = running'[r] + starting[r] + 1
      BY <1>6, <1>8, <3>1
    <3>3. \A q \in Parts \ {r} : running'[q] + starting'[q] = running'[q] + starting[q]
      BY <1>6, <3>1
    <3>4. /\ IsFiniteSet(OwedBy(running', starting', Parts))
          /\ Cardinality(OwedBy(running', starting', Parts))
               = Cardinality(OwedBy(running', starting, Parts)) + 1
      <4>1. /\ starting \in [Parts -> Nat] /\ running' \in [Parts -> Nat]
            /\ starting' \in [Parts -> Nat] /\ r \in Parts
            /\ IsFiniteSet(OwedBy(running', starting, Parts))
        BY <1>6, <1>8, <1>10, <2>2, <3>1
      <4> QED
        BY <3>2, <3>3, <4>1, OwedPlusOne
    <3>5. IsFiniteSet(Owed') /\ Cardinality(Owed') = Cardinality(Owed)
      BY <2>3, <2>4, <3>4, OwedNext DEF FinishDownload
    <3>6. parts_in_flight' = parts_in_flight /\ main' = main
      BY <1>3, <1>4, <1>6, <2>5
    <3> QED
      BY <3>5, <3>6 DEF CoordInv, Flight, InFlightIsExact
  <2>6. CASE ~goesOn
    <3>1. starting' = starting /\ parts_in_flight' = parts_in_flight - 1 /\ main' = main
      BY <1>3, <1>5, <1>6, <2>6
    <3>2. IsFiniteSet(Owed') /\ Cardinality(Owed') = Cardinality(Owed) - 1
      BY <2>2, <2>4, <3>1, OwedNext DEF FinishDownload
    <3> QED
      BY <2>3, <3>1, <3>2 DEF CoordInv, Flight, InFlightIsExact
  <2> QED
    BY <2>5, <2>6
<1>13. ErrorKept'
  BY <1>3, <1>6 DEF CoordInv, ErrorKept
<1>14. IndexBehind'
  BY <1>1, <1>3, <1>4, <1>5, <1>6 DEF CoordInv, IndexBehind, TypeOK
<1>15. NoneSkipped'
  <2> SUFFICES ASSUME ~cancel_requested', NEW q \in Missing, q < next_part_to_start'
               PROVE  Taken(q)'
    BY <1>1 DEF NoneSkipped
  <2>1. ~cancel_requested /\ ~error /\ processed' = processed \cup {p}
    BY <1>3
  <2>2. q \in Parts /\ q \in Nat
    BY <1>2
  <2>3. CASE q < next_part_to_start
    <3>1. Taken(q)
      BY <2>1, <2>3 DEF CoordInv, NoneSkipped
    <3>2. starting[q] \in Nat /\ starting'[q] \in Nat /\ starting'[q] >= starting[q]
      BY <1>6, <1>10, <2>2
    <3>3. q # p => running'[q] = running[q]
      BY <1>8, <2>2
    <3> QED
      BY <1>3, <2>1, <3>1, <3>2, <3>3 DEF Taken
  <2>4. CASE ~(q < next_part_to_start)
    <3>1. goesOn /\ q = next_part_to_start
      BY <1>4, <1>5, <1>6, <2>2, <2>4
    <3>2. starting'[q] = starting[q] + 1 /\ starting[q] \in Nat
      BY <1>4, <1>6, <1>9, <3>1
    <3> QED
      BY <3>2 DEF Taken
  <2> QED
    BY <2>3, <2>4
<1>16. WaitsForAll'
  <2> SUFFICES ASSUME main' = "waiting", ~cancel_requested', parts_in_flight' = 0,
                      NEW q \in Missing
               PROVE  q < next_part_to_start'
    BY <1>1 DEF WaitsForAll, AllReached
  <2>1. ~goesOn /\ ~cancel
    BY <1>3, <1>4, <1>6, <1>7
  <2>2. ~(next_part_to_start < parts_to_download)
    BY <2>1 DEF goesOn
  <2>3. q < parts_to_download /\ q \in Nat
    BY <1>2, ArchiveFacts DEF CoordInv
  <2> QED
    BY <1>5, <1>6, <2>1, <2>2, <2>3
<1>17. Quiet' /\ BufferedSoFar' /\ ResultKnown'
  BY <1>3, <1>7 DEF CoordInv, Quiet, BufferedSoFar, ResultKnown
<1> QED
  BY <1>1, <1>11, <1>12, <1>13, <1>14, <1>15, <1>16, <1>17 DEF CoordInv

\* The start under way in a callback becomes a request.
LEMMA CallbackStartsKeeps ==
  ASSUME CoordInv, NEW p \in Parts, CallbackStartsPart(p)
  PROVE  CoordInv'
<1>1. /\ num_parts' = num_parts /\ Parts' = Parts /\ Missing' = Missing /\ Needed' = Needed
      /\ part_has_full_body_data' = part_has_full_body_data
      /\ ArchiveOK' = ArchiveOK
  BY ArchiveFixed DEF CallbackStartsPart
<1>2. num_parts \in Nat \ {0} /\ Parts = 0..(num_parts - 1)
        /\ part_has_full_body_data \subseteq Parts /\ Missing \subseteq Parts
  BY ArchiveFacts DEF CoordInv
<1>3. /\ starting[p] > 0
      /\ starting' = [starting EXCEPT ![p] = @ - 1]
      /\ running' = [running EXCEPT ![p] = @ + 1]
      /\ storing' = [storing EXCEPT ![p] = @ + 1]
      /\ UNCHANGED <<parts_in_flight, next_part_to_start, cancel_requested, first_error_code>>
      /\ UNCHANGED <<main, part_idx, notified, processed, result>>
  BY DEF CallbackStartsPart, Bump, coord
<1>4. running \in [Parts -> Nat] /\ starting \in [Parts -> Nat]
        /\ storing \in [Parts -> Nat]
  BY DEF CoordInv, TypeOK
<1>5. /\ starting' \in [Parts -> Nat] /\ running' \in [Parts -> Nat]
      /\ starting'[p] = starting[p] - 1 /\ running'[p] = running[p] + 1
      /\ \A q \in Parts \ {p} : running'[q] = running[q] /\ starting'[q] = starting[q]
  BY <1>3, <1>4
<1>6. TypeOK'
  <2>1. storing' \in [Parts -> Nat]
    BY <1>3, <1>4
  <2> QED
    BY <1>1, <1>3, <1>5, <2>1 DEF CoordInv, TypeOK
<1>7. Flight'
  <2>1. \A q \in Parts : running'[q] + starting'[q] = running[q] + starting[q]
    BY <1>4, <1>5
  <2>2. OwedBy(running', starting', Parts) = OwedBy(running, starting, Parts)
    BY <1>4, <1>5, <2>1, OwedSame
  <2>3. Owed' = Owed
    BY <2>2, OwedNow, OwedNext DEF CallbackStartsPart
  <2> QED
    BY <1>3, <2>3 DEF CoordInv, Flight, InFlightIsExact
<1>8. ErrorKept' /\ IndexBehind' /\ WaitsForAll' /\ Quiet' /\ BufferedSoFar' /\ ResultKnown'
  BY <1>1, <1>3 DEF CoordInv, ErrorKept, IndexBehind, WaitsForAll, AllReached, Quiet,
                    BufferedSoFar, ResultKnown
<1>9. NoneSkipped'
  <2> SUFFICES ASSUME ~cancel_requested, NEW q \in Missing, q < next_part_to_start
               PROVE  Taken(q)'
    BY <1>1, <1>3 DEF NoneSkipped
  <2>1. Taken(q) /\ q \in Parts
    BY <1>2 DEF CoordInv, NoneSkipped
  <2>2. running'[p] > 0
    BY <1>4, <1>5
  <2> QED
    BY <1>3, <1>5, <2>1, <2>2 DEF Taken
<1> QED
  BY <1>1, <1>6, <1>7, <1>8, <1>9 DEF CoordInv

\* Storing the request is none of the coordinator's business.
LEMMA CallbackStoresKeeps ==
  ASSUME CoordInv, NEW p \in Parts, CallbackStoresRequest(p)
  PROVE  CoordInv'
<1>1. /\ UNCHANGED archive
      /\ UNCHANGED <<main, part_idx, parts_in_flight, next_part_to_start, cancel_requested,
                     first_error_code, running, starting, notified, processed, result>>
  BY DEF CallbackStoresRequest, coord
<1>2. /\ num_parts' = num_parts /\ Parts' = Parts /\ Missing' = Missing /\ Needed' = Needed
      /\ part_has_full_body_data' = part_has_full_body_data
      /\ ArchiveOK' = ArchiveOK
  BY <1>1, ArchiveFixed
<1>3. Owed' = Owed
  BY <1>1, OwedNow, OwedNext
<1>4. storing' \in [Parts -> Nat]
  BY DEF CallbackStoresRequest, Bump, CoordInv, TypeOK
<1> QED
  BY <1>1, <1>2, <1>3, <1>4
     DEF CoordInv, TypeOK, Flight, InFlightIsExact, ErrorKept, IndexBehind, NoneSkipped, Taken,
         WaitsForAll, AllReached, Quiet, BufferedSoFar, ResultKnown

LEMMA CallbackFailsKeeps ==
  ASSUME CoordInv, NEW p \in Parts, CallbackFailsToStart(p)
  PROVE  CoordInv'
<1>1. /\ num_parts' = num_parts /\ Parts' = Parts /\ Missing' = Missing /\ Needed' = Needed
      /\ part_has_full_body_data' = part_has_full_body_data
      /\ ArchiveOK' = ArchiveOK
  BY ArchiveFixed DEF CallbackFailsToStart
<1>2. num_parts \in Nat \ {0} /\ Parts = 0..(num_parts - 1)
        /\ part_has_full_body_data \subseteq Parts /\ Missing \subseteq Parts
  BY ArchiveFacts DEF CoordInv
<1>3. /\ starting[p] > 0
      /\ starting' = [starting EXCEPT ![p] = @ - 1]
      /\ parts_in_flight' = parts_in_flight - 1
      /\ cancel_requested' = TRUE
      /\ first_error_code' = IF ~cancel_requested THEN -1 ELSE first_error_code
      /\ UNCHANGED <<main, part_idx, next_part_to_start, running, storing, processed,
                     result>>
  BY DEF CallbackFailsToStart, Bump, ErrorAfter
<1>4. running \in [Parts -> Nat] /\ starting \in [Parts -> Nat] /\ parts_in_flight \in Nat
  BY DEF CoordInv, TypeOK
<1>5. /\ starting' \in [Parts -> Nat] /\ starting'[p] = starting[p] - 1
      /\ \A q \in Parts \ {p} : starting'[q] = starting[q]
  BY <1>3, <1>4
<1>6. /\ parts_in_flight >= 1 /\ parts_in_flight <= max_concurrent
      /\ main \notin {"buffered", "returned"}
  BY <1>3, CallbackIsCounted
<1>7. TypeOK'
  <2>1. cancel_requested' \in BOOLEAN /\ notified' \in BOOLEAN
    BY Zenon DEF CallbackFailsToStart, NotifiedAfter
  <2>2. parts_in_flight' \in 0..max_concurrent
    BY <1>3, <1>4, <1>6, CoordinatorAssumption
  <2>3. first_error_code' \in {0, -1}
    BY <1>3 DEF CoordInv, TypeOK
  <2> QED
    BY <1>1, <1>3, <1>5, <2>1, <2>2, <2>3 DEF CoordInv, TypeOK
<1>8. Flight'
  <2>1. IsFiniteSet(OwedBy(running, starting, Parts))
    BY OwedNow DEF CoordInv, Flight
  <2>2. running[p] + starting[p] = running'[p] + starting'[p] + 1
    BY <1>3, <1>4, <1>5
  <2>3. \A q \in Parts \ {p} : running'[q] + starting'[q] = running[q] + starting[q]
    BY <1>3, <1>5
  <2>4. running' \in [Parts -> Nat]
    BY <1>3, <1>4
  <2>5. /\ IsFiniteSet(OwedBy(running', starting', Parts))
        /\ Cardinality(OwedBy(running', starting', Parts))
             = Cardinality(OwedBy(running, starting, Parts)) - 1
    <3>1. /\ running \in [Parts -> Nat] /\ starting \in [Parts -> Nat]
          /\ running' \in [Parts -> Nat] /\ starting' \in [Parts -> Nat]
      BY <1>4, <1>5, <2>4
    <3> QED
      BY <2>1, <2>2, <2>3, <3>1, OwedMinusOne
  <2>6. IsFiniteSet(Owed') /\ Cardinality(Owed') = Cardinality(Owed) - 1
    BY <2>5, OwedNow, OwedNext DEF CallbackFailsToStart
  <2>7. Cardinality(Owed) \in Nat
    BY FS_CardinalityType DEF CoordInv, Flight
  <2> QED
    BY <1>3, <2>6, <2>7 DEF CoordInv, Flight, InFlightIsExact
<1>9. ErrorKept'
  BY <1>3 DEF CoordInv, ErrorKept
<1>10. IndexBehind' /\ NoneSkipped' /\ WaitsForAll' /\ Quiet' /\ BufferedSoFar' /\ ResultKnown'
  BY <1>1, <1>3, <1>6
     DEF CoordInv, IndexBehind, NoneSkipped, WaitsForAll, Quiet, BufferedSoFar, ResultKnown
<1> QED
  BY <1>1, <1>7, <1>8, <1>9, <1>10 DEF CoordInv

(***************************************************************************)
(* The theorems.                                                           *)
(***************************************************************************)

LEMMA StutterKeeps ==
  ASSUME CoordInv, UNCHANGED vars
  PROVE  CoordInv'
<1>1. /\ UNCHANGED archive
      /\ UNCHANGED <<main, part_idx, parts_in_flight, next_part_to_start, cancel_requested,
                     first_error_code, running, starting, storing, notified, processed, result>>
  BY DEF vars, coord
<1>2. /\ num_parts' = num_parts /\ Parts' = Parts /\ Missing' = Missing /\ Needed' = Needed
      /\ part_has_full_body_data' = part_has_full_body_data
      /\ ArchiveOK' = ArchiveOK
  BY <1>1, ArchiveFixed
<1>3. Owed' = Owed
  BY <1>1, OwedNow, OwedNext
<1> QED
  BY <1>1, <1>2, <1>3
     DEF CoordInv, TypeOK, Flight, InFlightIsExact, ErrorKept, IndexBehind, NoneSkipped, Taken,
         WaitsForAll, AllReached, Quiet, BufferedSoFar, ResultKnown

LEMMA StepKeeps ==
  ASSUME CoordInv, [Next]_vars
  PROVE  CoordInv'
<1>1. CASE MainSteps
  BY <1>1, StartLoopKeeps, StartsPartKeeps, FailsToStartKeeps, WakeKeeps, BufferedKeeps
     DEF MainSteps, MainWakes
<1>2. CASE MainWakesSpuriously
  BY <1>2, WakeKeeps DEF MainWakesSpuriously
<1>3. CASE \E p \in Parts : CallbackSteps(p)
  BY <1>3, FinishKeeps, CallbackStartsKeeps, CallbackStoresKeeps, CallbackFailsKeeps
     DEF CallbackSteps
<1>4. CASE UNCHANGED vars
  BY <1>4, StutterKeeps
<1> QED
  BY <1>1, <1>2, <1>3, <1>4 DEF Next

LEMMA CoordInvHolds == Spec => []CoordInv
<1>1. Init => CoordInv
  BY InitHolds
<1>2. CoordInv /\ [Next]_vars => CoordInv'
  BY StepKeeps
<1> QED
  BY <1>1, <1>2, PTL DEF Spec

\* The counters of the coordinator stay in range and never more than
\* max_concurrent downloads are in flight.
THEOREM DownloadTypeCorrect == Spec => []TypeOK
<1>1. CoordInv => TypeOK
  BY DEF CoordInv
<1> QED
  BY <1>1, CoordInvHolds, PTL

\* parts_in_flight is the number of requests and starts that still owe a
\* callback, whatever the order of main and the callbacks.
THEOREM FlightIsExact == Spec => []InFlightIsExact
<1>1. CoordInv => InFlightIsExact
  BY DEF CoordInv, Flight
<1> QED
  BY <1>1, CoordInvHolds, PTL

\* Once main has left the wait of extract_concurrent, every request has had its
\* finish callback and none is to be started: nothing will lock the mutex or
\* feed a processor any more.  A callback may still be in the last lines of
\* start_part_download_async (run download_callback).
THEOREM AllRequestsFinished == Spec => []EveryRequestFinished
<1>1. CoordInv => EveryRequestFinished
  <2> SUFFICES ASSUME CoordInv, main \in {"buffered", "returned"}
               PROVE  \A p \in Parts : running[p] + starting[p] = 0
    BY DEF EveryRequestFinished
  <2>1. parts_in_flight = 0
    BY DEF CoordInv, Quiet
  <2>2. \A p \in Parts : running[p] = 0 /\ starting[p] = 0
    BY <2>1, FlightIsEmpty
  <2> QED
    BY <2>2
<1> QED
  BY <1>1, CoordInvHolds, PTL

\* extract_concurrent returns 0 only when every part that holds file data
\* was processed.
THEOREM SuccessIsComplete == Spec => []SuccessMeansAllParts
<1>1. CoordInv => SuccessMeansAllParts
  BY DEF CoordInv, ResultKnown, SuccessMeansAllParts, Needed
<1> QED
  BY <1>1, CoordInvHolds, PTL

(***************************************************************************)
(* The coordinator implements AllOrError.                                  *)
(***************************************************************************)

Failed == cancel_requested \/ result # 0
Outcome == IF main # "returned" THEN "running" ELSE IF result = 0 THEN "ok" ELSE "failed"

\* Each step of AllOrError, in the variables of the coordinator.
LEMMA JobFault ==
  ASSUME Outcome = "running", Failed' = TRUE, Outcome' = "running",
         processed' = processed, Needed' = Needed
  PROVE  Job!Next
  BY DEF Job!Next, Job!Fault, Failed, Outcome, Needed

LEMMA JobReturnFailed ==
  ASSUME Outcome = "running", Failed' = TRUE, Outcome' = "failed",
         processed' = processed, Needed' = Needed
  PROVE  Job!Next
  BY DEF Job!Next, Job!ReturnFailed, Failed, Outcome, Needed

LEMMA JobReturnOk ==
  ASSUME Outcome = "running", ~Failed, Needed \subseteq processed, Outcome' = "ok",
         processed' = processed, Needed' = Needed, Failed' = Failed
  PROVE  Job!Next
  BY DEF Job!Next, Job!ReturnOk, Failed, Outcome, Needed

LEMMA JobStutter ==
  ASSUME Outcome' = Outcome, Failed' = Failed, processed' = processed, Needed' = Needed
  PROVE  UNCHANGED Job!vars
  BY DEF Job!vars, Failed, Outcome, Needed

LEMMA JobDoItem ==
  ASSUME Outcome = "running", Outcome' = Outcome, Failed' = Failed, Needed' = Needed,
         NEW p, processed' = processed \cup {p}
  PROVE  [Job!Next]_(Job!vars)
<1>1. CASE p \in processed
  BY <1>1, JobStutter
<1>2. CASE p \notin processed
  <2>1. p \in processed' \ processed
    BY <1>2
  <2>2. Job!DoItem
    BY <2>1 DEF Job!DoItem, Failed, Outcome, Needed
  <2> QED
    BY <2>2 DEF Job!Next
<1> QED
  BY <1>1, <1>2

\* Main's wait ends with the recorded error or goes on.
LEMMA AwaitImplements ==
  ASSUME CoordInv, main \in {"loop", "waiting"},
         AwaitDownloads(parts_in_flight, first_error_code),
         UNCHANGED <<archive, coord, processed>>
  PROVE  [Job!Next]_(Job!vars)
<1>1. Needed' = Needed /\ UNCHANGED <<processed, cancel_requested, first_error_code>>
  BY ArchiveFixed DEF coord
<1>2. result = 0 /\ Outcome = "running"
  BY DEF CoordInv, ResultKnown, Outcome
<1>3. first_error_code = IF cancel_requested THEN -1 ELSE 0
  BY DEF CoordInv, ErrorKept
<1>4. parts_in_flight \in Int
  BY DEF CoordInv, TypeOK
<1>5. CASE main' = "returned"
  <2>1. result' = -1 /\ cancel_requested'
    BY <1>1, <1>3, <1>4, <1>5 DEF AwaitDownloads
  <2>2. Failed' = TRUE /\ Outcome' = "failed"
    BY <1>5, <2>1 DEF Failed, Outcome
  <2> QED
    BY <1>1, <1>2, <2>2, JobReturnFailed
<1>6. CASE main' # "returned"
  <2>1. result' = 0
    BY <1>2, <1>4, <1>6 DEF AwaitDownloads
  <2>2. Outcome' = Outcome
    BY <1>2, <1>6 DEF Outcome
  <2>3. Failed' = Failed
    BY <1>1, <1>2, <2>1 DEF Failed
  <2> QED
    BY <1>1, <2>2, <2>3, JobStutter
<1> QED
  BY <1>5, <1>6

LEMMA MainImplements ==
  ASSUME CoordInv, MainSteps \/ MainWakesSpuriously
  PROVE  [Job!Next]_(Job!vars)
<1>1. CASE MainStartLoop
  <2>1. CASE main' = "starting"
    <3>1. main = "loop" /\ UNCHANGED <<cancel_requested, result, processed>>
      BY <1>1, <2>1 DEF MainStartLoop, AwaitDownloads
    <3>2. Outcome' = Outcome /\ Failed' = Failed
      BY <2>1, <3>1 DEF Outcome, Failed
    <3>3. Needed' = Needed
      BY <1>1, ArchiveFixed DEF MainStartLoop
    <3> QED
      BY <3>1, <3>2, <3>3, JobStutter
  <2>2. CASE main' # "starting"
    <3>1. /\ main = "loop" /\ AwaitDownloads(parts_in_flight, first_error_code)
          /\ UNCHANGED <<archive, coord, processed>>
      BY <1>1, <2>2 DEF MainStartLoop
    <3> QED
      BY <3>1, AwaitImplements
  <2> QED
    BY <2>1, <2>2
<1>2. CASE MainStartsPart
  <2>1. main = "starting" /\ main' = "loop" /\ UNCHANGED <<cancel_requested, result, processed>>
    BY <1>2 DEF MainStartsPart, coord
  <2>2. Outcome' = Outcome /\ Failed' = Failed
    BY <2>1 DEF Outcome, Failed
  <2>3. Needed' = Needed
    BY <1>2, ArchiveFixed DEF MainStartsPart
  <2> QED
    BY <2>1, <2>2, <2>3, JobStutter
<1>3. CASE MainFailsToStart
  <2>1. /\ main = "starting" /\ cancel_requested' = TRUE /\ processed' = processed
        /\ main' \in {"waiting", "returned"} /\ (main' = "returned" => result' = -1)
    BY <1>3 DEF MainFailsToStart, AwaitDownloads
  <2>2. Outcome = "running" /\ Failed' = TRUE
    BY <2>1 DEF Outcome, Failed
  <2>3. Outcome' = "running" \/ Outcome' = "failed"
    BY <2>1 DEF Outcome
  <2>4. Needed' = Needed
    BY <1>3, ArchiveFixed DEF MainFailsToStart
  <2> QED
    BY <2>1, <2>2, <2>3, <2>4, JobFault, JobReturnFailed
<1>4. CASE main = "waiting" /\ Wake
  BY <1>4, AwaitImplements DEF Wake
<1>5. CASE MainProcessesBuffered
  <2> DEFINE p == Min({q \in part_has_full_body_data : q >= part_idx})
  <2>1. main = "buffered" /\ cancel_requested' = cancel_requested
    BY <1>5 DEF MainProcessesBuffered, coord
  <2>2. \/ /\ main' = "returned" /\ UNCHANGED <<processed, result>>
        \/ /\ processed' = processed \cup {p} /\ UNCHANGED <<main, result>>
        \/ /\ result' = -1 /\ main' = "returned" /\ UNCHANGED processed
    BY <1>5 DEF MainProcessesBuffered
  <2> HIDE DEF p
  <2>3. result = 0 /\ ~cancel_requested /\ Outcome = "running" /\ ~Failed
    BY <2>1 DEF CoordInv, BufferedSoFar, ResultKnown, Outcome, Failed
  <2>4. Needed' = Needed
    BY <1>5, ArchiveFixed DEF MainProcessesBuffered
  <2>5. CASE main' = "returned" /\ UNCHANGED <<processed, result>>
    <3>1. Needed \subseteq processed
      <4>1. CoordInv'
        BY <1>5, BufferedKeeps
      <4> QED
        BY <2>3, <2>4, <2>5, <4>1 DEF CoordInv, ResultKnown
    <3>2. Outcome' = "ok" /\ Failed' = Failed
      BY <2>1, <2>3, <2>5 DEF Outcome, Failed
    <3> QED
      BY <2>3, <2>4, <2>5, <3>1, <3>2, JobReturnOk
  <2>6. CASE processed' = processed \cup {p} /\ UNCHANGED <<main, result>>
    <3>1. Outcome' = Outcome /\ Failed' = Failed
      BY <2>1, <2>6 DEF Outcome, Failed
    <3> QED
      BY <2>3, <2>4, <2>6, <3>1, JobDoItem
  <2>7. CASE result' = -1 /\ main' = "returned" /\ UNCHANGED processed
    <3>1. Outcome' = "failed" /\ Failed' = TRUE
      BY <2>7 DEF Outcome, Failed
    <3> QED
      BY <2>3, <2>4, <2>7, <3>1, JobReturnFailed
  <2> QED
    BY <2>2, <2>5, <2>6, <2>7
<1> QED
  BY <1>1, <1>2, <1>3, <1>4, <1>5 DEF MainSteps, MainWakes, MainWakesSpuriously

LEMMA CallbackImplements ==
  ASSUME CoordInv, NEW p \in Parts, CallbackSteps(p)
  PROVE  [Job!Next]_(Job!vars)
<1>1. CASE FinishDownload(p, TRUE)
  <2>1. running[p] > 0 /\ cancel_requested' /\ UNCHANGED <<main, result, processed>>
    BY <1>1 DEF FinishDownload
  <2>2. main # "returned"
    BY <2>1, CallbackIsCounted
  <2>3. Outcome = "running" /\ Outcome' = "running" /\ Failed' = TRUE
    BY <2>1, <2>2 DEF Outcome, Failed
  <2>4. Needed' = Needed
    BY <1>1, ArchiveFixed DEF FinishDownload
  <2> QED
    BY <2>1, <2>3, <2>4, JobFault
<1>2. CASE FinishDownload(p, FALSE)
  <2>1. /\ running[p] > 0 /\ processed' = processed \cup {p}
        /\ cancel_requested' = (cancel_requested \/ FALSE) /\ UNCHANGED <<main, result>>
    BY <1>2 DEF FinishDownload
  <2>2. main # "returned"
    BY <2>1, CallbackIsCounted
  <2>3. Outcome = "running" /\ Outcome' = Outcome /\ Failed' = Failed
    BY <2>1, <2>2 DEF Outcome, Failed
  <2>4. Needed' = Needed
    BY <1>2, ArchiveFixed DEF FinishDownload
  <2> QED
    BY <2>1, <2>3, <2>4, JobDoItem
<1>3. CASE CallbackStartsPart(p) \/ CallbackStoresRequest(p)
  <2>1. UNCHANGED <<main, cancel_requested, result, processed>>
    BY <1>3 DEF CallbackStartsPart, CallbackStoresRequest, coord
  <2>2. Outcome' = Outcome /\ Failed' = Failed
    BY <2>1 DEF Outcome, Failed
  <2>3. Needed' = Needed
    BY <1>3, ArchiveFixed DEF CallbackStartsPart, CallbackStoresRequest
  <2> QED
    BY <2>1, <2>2, <2>3, JobStutter
<1>4. CASE CallbackFailsToStart(p)
  <2>1. starting[p] > 0 /\ cancel_requested' /\ UNCHANGED <<main, result, processed>>
    BY <1>4 DEF CallbackFailsToStart
  <2>2. main # "returned"
    BY <2>1, CallbackIsCounted
  <2>3. Outcome = "running" /\ Outcome' = "running" /\ Failed' = TRUE
    BY <2>1, <2>2 DEF Outcome, Failed
  <2>4. Needed' = Needed
    BY <1>4, ArchiveFixed DEF CallbackFailsToStart
  <2> QED
    BY <2>1, <2>3, <2>4, JobFault
<1> QED
  BY <1>1, <1>2, <1>3, <1>4 DEF CallbackSteps

\* extract_concurrent implements AllOrError: it reports a failure exactly
\* when there was one, succeeds only with every needed part done, and touches
\* nothing after its return.
THEOREM ImplementsAllOrError == Spec => PartsAllOrError
<1>1. Init => Job!Init
  BY DEF Init, Job!Init
<1>2. CoordInv /\ [Next]_vars => [Job!Next]_(Job!vars)
  <2> SUFFICES ASSUME CoordInv, [Next]_vars PROVE [Job!Next]_(Job!vars)
    OBVIOUS
  <2>1. CASE MainSteps \/ MainWakesSpuriously
    BY <2>1, MainImplements
  <2>2. CASE \E p \in Parts : CallbackSteps(p)
    BY <2>2, CallbackImplements
  <2>3. CASE UNCHANGED vars
    <3>1. UNCHANGED <<main, cancel_requested, result, processed>> /\ UNCHANGED archive
      BY <2>3 DEF vars, coord
    <3>2. Outcome' = Outcome /\ Failed' = Failed /\ Needed' = Needed
      BY <3>1, ArchiveFixed DEF Outcome, Failed
    <3> QED
      BY <3>1, <3>2, JobStutter
  <2> QED
    BY <2>1, <2>2, <2>3 DEF Next
<1> QED
  BY <1>1, <1>2, CoordInvHolds, PTL DEF Spec, PartsAllOrError, Job!Safety
=============================================================================
