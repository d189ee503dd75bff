---------------------------- MODULE HybridProofs ----------------------------
(***************************************************************************)
(* Proofs about the hybrid download coordinator, for every archive, every  *)
(* placement of its entries and every limit on parallel requests: the      *)
(* count of requests in flight is exact, the parts downloaded early are    *)
(* fully described by the partial directory, and no work is left behind    *)
(* although every callback dispatches only one item.                       *)
(***************************************************************************)
EXTENDS HybridCoordinator, CdFetchProofs

(***************************************************************************)
(* The inductive invariant.                                                *)
(***************************************************************************)

ArchiveOK ==
  /\ archive_size \in Nat \ {0}
  /\ central_dir_offset \in 1..(initial_start - 1)
  /\ files \subseteq 0..(central_dir_offset - 1) /\ 0 \in files
  /\ \E first \in files : partial_cd = {f \in files : f >= first}

\* The items whose finish callback, or start, is still to come.
MainItem == IF main = "starting" THEN {main_item} ELSE {}
Away == running \cup starting \cup MainItem

Cd(items) == {x \in items : x.kind = "cd"}

\* What is away was dispatched and is counted, and without an error every
\* item that was dispatched is away or was completed.
Tracked(away, flying, completed, cancelled, complete, dispatched, parts) ==
  /\ away \subseteq Items /\ IsFiniteSet(away)
  /\ flying = Cardinality(away)
  /\ completed \in Nat /\ dispatched \in 0..cd_ranges_total /\ parts \subseteq Parts
  /\ \A x \in away : IF x.kind = "cd" THEN x.index < dispatched ELSE x.index \in parts
  /\ completed + Cardinality(Cd(away)) <= dispatched
  /\ ~cancelled => completed + Cardinality(Cd(away)) = dispatched
  /\ ~cancelled => \A p \in parts : p \in complete \/ PartItem(p) \in away

Flight ==
  Tracked(Away, in_flight, cd_ranges_completed, cancel_requested, part_complete,
          cd_ranges_dispatched, part_dispatched)

ItemsApart ==
  /\ running \cap starting = {}
  /\ main = "starting" => main_item \notin running \cup starting

\* The full directory is there, or being parsed, once the last range is.
DirectoryFollows ==
  cd_ranges_completed = cd_ranges_total /\ ~cancel_requested => assembling \/ cd_complete

\* When nothing is in flight, the dispatcher has nothing left to start.
NothingLeft ==
  ~cancel_requested /\ in_flight = 0 /\ ~assembling /\ main # "begin" =>
    NextItem(0, FALSE, cd_complete) = NoItem

HybridInv == ArchiveOK /\ TypeOK /\ Flight /\ ItemsApart /\ DirectoryFollows /\ NothingLeft

(***************************************************************************)
(* What is fixed for an archive.                                           *)
(***************************************************************************)

LEMMA ArchiveFixed ==
  ASSUME UNCHANGED archive
  PROVE  /\ UNCHANGED <<archive_size, central_dir_offset, files, partial_cd, initial_start>>
         /\ UNCHANGED <<num_parts, Parts, cd_ranges_total, Items>>
         /\ UNCHANGED <<early_part_queue, late_part_queue>>
         /\ ArchiveOK' = ArchiveOK
<1>1. UNCHANGED <<archive_size, central_dir_offset, files, partial_cd>>
  BY DEF archive
<1>2. UNCHANGED <<initial_start, num_parts>>
  BY <1>1 DEF initial_start, num_parts
<1>3. UNCHANGED <<Parts, cd_ranges_total>>
  BY <1>1, <1>2 DEF Parts, cd_ranges_total
<1>4. UNCHANGED Items
  BY <1>3 DEF Items
<1>5. UNCHANGED late_part_queue
  BY <1>1, <1>3 DEF late_part_queue
<1>6. UNCHANGED early_part_queue
  BY <1>1, <1>2 DEF early_part_queue, FirstOfItsPart, Before
<1> QED
  BY <1>1, <1>2, <1>3, <1>4, <1>5, <1>6 DEF ArchiveOK

LEMMA ArchiveFacts ==
  ASSUME ArchiveOK
  PROVE  /\ archive_size \in Nat \ {0} /\ central_dir_offset \in 1..(archive_size - 1)
         /\ initial_start \in 0..(archive_size - 1)
         /\ num_parts \in Nat \ {0} /\ Parts = 0..(num_parts - 1)
         /\ cd_ranges_total \in Nat \ {0}
         /\ partial_cd \subseteq files /\ files \subseteq Nat
         /\ PartsInMemory(archive_size, central_dir_offset) \subseteq Parts
<1>1. /\ archive_size \in Nat \ {0} /\ initial_start \in 0..(archive_size - 1)
      /\ central_dir_offset \in 1..(archive_size - 1) /\ central_dir_offset < initial_start
      /\ central_dir_offset \in Nat /\ initial_start \in Nat
  BY TailRange DEF ArchiveOK, initial_start
<1>2. num_parts \in Nat \ {0}
  BY <1>1, NumPartsCover DEF num_parts
<1>3. cd_ranges_total \in Nat \ {0}
  <2>1. /\ FirstPart(central_dir_offset) \in Nat /\ LastPart(initial_start) \in Nat
        /\ FirstPart(central_dir_offset) <= LastPart(initial_start)
    BY <1>1, PartsInOrder
  <2>2. cd_ranges_total = LastPart(initial_start) - FirstPart(central_dir_offset) + 1
    BY <1>1, RangesCounted DEF cd_ranges_total
  <2> QED
    BY <2>1, <2>2
<1>4. partial_cd \subseteq files /\ files \subseteq Nat
  BY <1>1 DEF ArchiveOK
<1>5. PartsInMemory(archive_size, central_dir_offset) \subseteq Parts
  BY <1>1, DownloadedPartsComeFirst DEF Parts, num_parts
<1> QED
  BY <1>1, <1>2, <1>3, <1>4, <1>5 DEF Parts

\* A byte of the archive lies in one of its parts.
LEMMA OffsetInParts ==
  ASSUME ArchiveOK, NEW f \in 0..(archive_size - 1)
  PROVE  /\ PartOf(f) \in Parts
         /\ PartOf(f) * part_size <= f /\ f < PartOf(f) * part_size + part_size
<1> DEFINE p == f \div part_size
<1>1. /\ f \in Nat /\ archive_size \in Nat \ {0} /\ f < archive_size
      /\ num_parts \in Nat \ {0}
  BY ArchiveFacts
<1>2. p \in Nat /\ p * part_size <= f /\ f < p * part_size + part_size
  BY <1>1, PartBrackets
<1>3. archive_size <= num_parts * part_size
  BY <1>1, NumPartsCover DEF num_parts
<1> HIDE DEF p
<1>4. ~(num_parts <= p)
  <2> SUFFICES ASSUME num_parts <= p PROVE FALSE
    OBVIOUS
  <2>1. p * part_size \in Nat /\ num_parts * part_size \in Nat
    BY <1>1, <1>2, PartStart
  <2>2. num_parts * part_size <= p * part_size
    <3>1. CASE num_parts = p
      BY <2>1, <3>1
    <3>2. CASE num_parts < p
      BY <1>1, <1>2, <2>1, <3>2, PartsApart, CdFetchAssumption
    <3> QED
      BY <1>1, <1>2, <3>1, <3>2
  <2> QED
    BY <1>1, <1>2, <1>3, <2>1, <2>2
<1>5. p \in Parts
  BY <1>1, <1>2, <1>4 DEF Parts
<1> QED
  BY <1>2, <1>5 DEF p, PartOf

\* Both queues hold parts of the archive.
LEMMA QueuesHoldParts ==
  ASSUME ArchiveOK
  PROVE  early_part_queue \subseteq Parts /\ late_part_queue \subseteq Parts
<1>1. ASSUME NEW p \in early_part_queue
      PROVE  \E f \in partial_cd : p = PartOf(f)
  BY DEF early_part_queue
<1>2. ASSUME NEW f \in partial_cd
      PROVE  f \in 0..(archive_size - 1)
  BY ArchiveFacts DEF ArchiveOK
<1>3. early_part_queue \subseteq Parts
  BY <1>1, <1>2, OffsetInParts
<1> QED
  BY <1>3 DEF late_part_queue

(***************************************************************************)
(* The early queue.                                                        *)
(***************************************************************************)

LEMMA MaxOfBounded ==
  ASSUME NEW n \in Nat, NEW S, S \subseteq 0..n, S # {}
  PROVE  /\ Max(S) \in S
         /\ \A x \in S : x <= Max(S)
<1> DEFINE T == {n - x : x \in S}
           m == Min(T)
<1>1. T \subseteq Nat /\ T # {}
  <2>1. \A x \in S : n - x \in Nat
    OBVIOUS
  <2> QED
    BY <2>1
<1>2. m \in T /\ \A y \in T : m <= y
  BY <1>1, MinOfNaturals
<1> HIDE DEF m
<1>3. PICK z \in S : m = n - z
  BY <1>2
<1>4. \A x \in S : x <= z
  <2> TAKE x \in S
  <2>1. n - x \in T
    OBVIOUS
  <2>2. m <= n - x
    BY <1>2, <2>1
  <2> QED
    BY <1>3, <2>2
<1>5. \E y \in S : \A x \in S : x <= y
  BY <1>4
<1> QED
  BY <1>5 DEF Max

\* Parts in order of their offsets.
LEMMA PartsOrdered ==
  ASSUME NEW f \in Nat, NEW g \in Nat, PartOf(f) < PartOf(g)
  PROVE  f < PartOf(g) * part_size /\ f < g
<1> DEFINE p == f \div part_size
           q == g \div part_size
<1>1. p \in Nat /\ q \in Nat /\ f < p * part_size + part_size /\ q * part_size <= g
  BY PartBrackets
<1>2. p < q
  BY DEF PartOf
<1> HIDE DEF p, q
<1>3. p * part_size + part_size <= q * part_size
  BY <1>1, <1>2, PartsApart
<1>4. p * part_size \in Nat /\ q * part_size \in Nat
  BY <1>1, PartStart
<1>5. f < q * part_size /\ f < g
  BY <1>1, <1>3, <1>4, CdFetchAssumption
<1> QED
  BY <1>5 DEF q, PartOf

\* A known file at or before the start of every early part: everything from
\* that file on is known.
LEMMA KnownBeforeEarlyPart ==
  ASSUME ArchiveOK, NEW p \in early_part_queue
  PROVE  \E k \in partial_cd : k <= p * part_size
<1> DEFINE safe == {f \in partial_cd : FirstOfItsPart(f)}
           m == Min(safe)
<1>1. safe # {} /\ safe \subseteq Nat
  BY ArchiveFacts DEF early_part_queue
<1>2. m \in safe
  BY <1>1, MinOfNaturals
<1>3. p >= PartOf(m)
  BY <1>1 DEF early_part_queue
<1> HIDE DEF m
<1>4. m \in partial_cd /\ m \in Nat /\ FirstOfItsPart(m)
  BY <1>1, <1>2
<1>5. p \in Nat /\ PartOf(m) \in Nat
  BY <1>4, QueuesHoldParts, ArchiveFacts, PartBrackets DEF PartOf
<1>6. PartOf(m) * part_size <= p * part_size
  <2> DEFINE q == PartOf(m)
  <2>1. q \in Nat /\ q <= p
    BY <1>3, <1>5
  <2> HIDE DEF q
  <2>2. q * part_size \in Nat /\ p * part_size \in Nat
    BY <1>5, <2>1, PartStart
  <2>3. q * part_size <= p * part_size
    <3>1. CASE q = p
      BY <2>2, <3>1
    <3>2. CASE q < p
      BY <1>5, <2>1, <2>2, <3>2, PartsApart, CdFetchAssumption
    <3> QED
      BY <1>5, <2>1, <3>1, <3>2
  <2> QED
    BY <2>3 DEF q
<1>7. CASE m = PartOf(m) * part_size
  BY <1>4, <1>6, <1>7
<1>8. CASE Before(m) # {} /\ PartOf(Max(Before(m))) < PartOf(m)
  <2> DEFINE h == Max(Before(m))
  <2>1. Before(m) \subseteq 0..m /\ Before(m) \subseteq partial_cd
    <3>1. \A g \in partial_cd : g \in Nat
      BY ArchiveFacts
    <3>2. \A g \in Before(m) : g \in partial_cd /\ g < m
      BY DEF Before
    <3>3. ASSUME NEW g \in Before(m) PROVE g \in 0..m
      <4>1. g \in Nat /\ m \in Nat /\ g < m
        BY <1>4, <3>1, <3>2
      <4> QED
        BY <4>1
    <3> QED
      BY <3>2, <3>3
  <2>2. h \in Before(m)
    BY <1>4, <1>8, <2>1, MaxOfBounded
  <2>3. PartOf(h) < PartOf(m)
    BY <1>8
  <2> HIDE DEF h
  <2>4. h \in partial_cd /\ h \in Nat
    BY <1>4, <2>1, <2>2
  <2>5. h < PartOf(m) * part_size
    BY <1>4, <2>3, <2>4, PartsOrdered
  <2>6. PartOf(m) * part_size \in Nat /\ p * part_size \in Nat
    BY <1>5, PartStart
  <2>7. h <= p * part_size
    BY <1>6, <2>4, <2>5, <2>6
  <2> QED
    BY <2>4, <2>7
<1> QED
  BY <1>4, <1>7, <1>8 DEF FirstOfItsPart

LEMMA EarlyKnown == ArchiveOK => EarlyPartsAreKnown
<1> SUFFICES ASSUME ArchiveOK, NEW p \in early_part_queue
             PROVE  /\ \A f \in files : PartOf(f) = p => f \in partial_cd
                    /\ p * part_size \notin files =>
                         Max({f \in files : f < p * part_size}) \in partial_cd
  BY DEF EarlyPartsAreKnown
<1>1. PICK k \in partial_cd : k <= p * part_size
  BY KnownBeforeEarlyPart
<1>2. files \subseteq Nat /\ partial_cd \subseteq files /\ p \in Nat
  BY ArchiveFacts, QueuesHoldParts
<1>3. p * part_size \in Nat
  BY <1>2, PartStart
<1>4. \A f \in files : f >= k => f \in partial_cd
  <2>1. PICK first \in files : partial_cd = {f \in files : f >= first}
    BY DEF ArchiveOK
  <2>2. first \in Nat /\ k \in Nat /\ k >= first
    BY <1>1, <1>2, <2>1
  <2> TAKE f \in files
  <2>3. f \in Nat
    BY <1>2
  <2> QED
    BY <2>1, <2>2, <2>3
<1>5. \A f \in files : PartOf(f) = p => f \in partial_cd
  <2> SUFFICES ASSUME NEW f \in files, PartOf(f) = p PROVE f \in partial_cd
    OBVIOUS
  <2>1. f \in Nat /\ k \in Nat
    BY <1>1, <1>2
  <2>2. p * part_size <= f
    BY <2>1, PartBrackets DEF PartOf
  <2>3. f >= k
    BY <1>1, <1>3, <2>1, <2>2
  <2> QED
    BY <1>4, <2>3
<1>6. ASSUME p * part_size \notin files
      PROVE  Max({f \in files : f < p * part_size}) \in partial_cd
  <2> DEFINE earlier == {f \in files : f < p * part_size}
             last == Max(earlier)
  <2>1. earlier \subseteq 0..(p * part_size)
    <3> DEFINE start == p * part_size
    <3>1. \A f \in earlier : f \in Nat /\ f < start
      BY <1>2
    <3>2. start \in Nat
      BY <1>3
    <3> HIDE DEF start, earlier
    <3>3. earlier \subseteq 0..start
      BY <3>1, <3>2
    <3> QED
      BY <3>3 DEF start
  <2>2. k \in earlier
    <3>1. k \in files /\ k \in Nat
      BY <1>1, <1>2
    <3>2. k # p * part_size
      BY <1>6, <3>1
    <3>3. k < p * part_size
      BY <1>1, <1>3, <3>1, <3>2
    <3> QED
      BY <3>1, <3>3
  <2> HIDE DEF earlier
  <2>3. last \in earlier /\ k <= last
    BY <1>3, <2>1, <2>2, MaxOfBounded
  <2> HIDE DEF last
  <2>4. last \in files
    BY <2>3 DEF earlier
  <2>5. last >= k
    BY <1>1, <1>2, <2>3, <2>4
  <2>6. last \in partial_cd
    BY <1>4, <2>4, <2>5
  <2> QED
    BY <2>6 DEF last, earlier
<1> QED
  BY <1>5, <1>6

(***************************************************************************)
(* Counting the items that are away.                                       *)
(***************************************************************************)

LEMMA CdFinite ==
  ASSUME NEW away, IsFiniteSet(away)
  PROVE  /\ IsFiniteSet(Cd(away)) /\ Cardinality(Cd(away)) \in Nat
         /\ Cardinality(away) \in Nat /\ (Cardinality(away) = 0 <=> away = {})
<1>1. Cd(away) \subseteq away
  BY DEF Cd
<1>2. IsFiniteSet(Cd(away))
  BY <1>1, FS_Subset
<1> QED
  BY <1>2, FS_CardinalityType, FS_EmptySet

LEMMA CdAdd ==
  ASSUME NEW away, IsFiniteSet(away), NEW x, x \notin away
  PROVE  /\ IsFiniteSet(away \cup {x}) /\ Cardinality(away \cup {x}) = Cardinality(away) + 1
         /\ Cardinality(Cd(away \cup {x})) =
              Cardinality(Cd(away)) + (IF x.kind = "cd" THEN 1 ELSE 0)
<1>1. IsFiniteSet(away \cup {x}) /\ Cardinality(away \cup {x}) = Cardinality(away) + 1
  BY FS_AddElement
<1>2. IsFiniteSet(Cd(away)) /\ Cardinality(Cd(away)) \in Nat /\ x \notin Cd(away)
  BY CdFinite DEF Cd
<1>3. CASE x.kind = "cd"
  <2>1. Cd(away \cup {x}) = Cd(away) \cup {x}
    BY <1>3 DEF Cd
  <2>2. Cardinality(Cd(away) \cup {x}) = Cardinality(Cd(away)) + 1
    BY <1>2, FS_AddElement
  <2> QED
    BY <1>1, <1>3, <2>1, <2>2
<1>4. CASE x.kind # "cd"
  <2>1. Cd(away \cup {x}) = Cd(away)
    BY <1>4 DEF Cd
  <2> QED
    BY <1>1, <1>2, <1>4, <2>1
<1> QED
  BY <1>3, <1>4

LEMMA CdRemove ==
  ASSUME NEW away, IsFiniteSet(away), NEW x \in away
  PROVE  /\ IsFiniteSet(away \ {x}) /\ Cardinality(away \ {x}) = Cardinality(away) - 1
         /\ Cardinality(Cd(away \ {x})) =
              Cardinality(Cd(away)) - (IF x.kind = "cd" THEN 1 ELSE 0)
<1>1. IsFiniteSet(away \ {x}) /\ Cardinality(away \ {x}) = Cardinality(away) - 1
  BY FS_RemoveElement
<1>2. IsFiniteSet(Cd(away)) /\ Cardinality(Cd(away)) \in Nat
  BY CdFinite
<1>3. CASE x.kind = "cd"
  <2>1. Cd(away \ {x}) = Cd(away) \ {x} /\ x \in Cd(away)
    BY <1>3 DEF Cd
  <2>2. Cardinality(Cd(away) \ {x}) = Cardinality(Cd(away)) - 1
    BY <1>2, <2>1, FS_RemoveElement
  <2> QED
    BY <1>1, <1>3, <2>1, <2>2
<1>4. CASE x.kind # "cd"
  <2>1. Cd(away \ {x}) = Cd(away)
    BY <1>4 DEF Cd
  <2> QED
    BY <1>1, <1>2, <1>4, <2>1
<1> QED
  BY <1>3, <1>4

\* A part is done: it leaves, and counts as complete.
LEMMA TrackedPartDone ==
  ASSUME NEW away, NEW flying, NEW completed, NEW cancelled, NEW complete, NEW dispatched, NEW parts,
         Tracked(away, flying, completed, cancelled, complete, dispatched, parts),
         NEW error, NEW p, PartItem(p) \in away
  PROVE  Tracked(away \ {PartItem(p)}, flying - 1, completed, cancelled \/ error,
                 complete \cup {p}, dispatched, parts)
<1> DEFINE x == PartItem(p)
<1>1. x.kind # "cd" /\ \A q : PartItem(q) = x => q = p
  BY DEF PartItem
<1>2. IsFiniteSet(away) /\ Cardinality(Cd(away)) \in Nat
  BY CdFinite DEF Tracked
<1> HIDE DEF x
<1>3. x \in away
  BY DEF x
<1>4. /\ IsFiniteSet(away \ {x}) /\ Cardinality(away \ {x}) = Cardinality(away) - 1
      /\ Cardinality(Cd(away \ {x})) = Cardinality(Cd(away)) - 0
  BY <1>1, <1>2, <1>3, CdRemove
<1>5. Cardinality(Cd(away \ {x})) = Cardinality(Cd(away))
  BY <1>2, <1>4
<1>6. ~(cancelled \/ error) =>
        \A q \in parts : q \in complete \cup {p} \/ PartItem(q) \in away \ {x}
  BY <1>1 DEF Tracked
<1>7. Tracked(away \ {x}, flying - 1, completed, cancelled \/ error, complete \cup {p},
              dispatched, parts)
  BY <1>4, <1>5, <1>6 DEF Tracked
<1> QED
  BY <1>7 DEF x

\* A directory range is done.
LEMMA TrackedRangeDone ==
  ASSUME NEW away, NEW flying, NEW completed, NEW cancelled, NEW complete, NEW dispatched, NEW parts,
         Tracked(away, flying, completed, cancelled, complete, dispatched, parts),
         NEW error \in BOOLEAN, NEW i, CdRange(i) \in away
  PROVE  Tracked(away \ {CdRange(i)}, flying - 1, completed + (IF error THEN 0 ELSE 1),
                 cancelled \/ error, complete, dispatched, parts)
<1> DEFINE x == CdRange(i)
           after == completed + (IF error THEN 0 ELSE 1)
<1>1. x.kind = "cd" /\ \A q : PartItem(q) # x
  BY DEF PartItem, CdRange
<1>2. /\ IsFiniteSet(away) /\ Cardinality(Cd(away)) \in Nat /\ completed \in Nat
      /\ dispatched \in Int
      /\ completed + Cardinality(Cd(away)) <= dispatched
      /\ ~cancelled => completed + Cardinality(Cd(away)) = dispatched
  BY CdFinite DEF Tracked
<1> HIDE DEF x
<1>3. x \in away
  BY DEF x
<1>4. /\ IsFiniteSet(away \ {x}) /\ Cardinality(away \ {x}) = Cardinality(away) - 1
      /\ Cardinality(Cd(away \ {x})) = Cardinality(Cd(away)) - 1
  BY <1>1, <1>2, <1>3, CdRemove
<1>5. /\ after \in Nat
      /\ after + Cardinality(Cd(away \ {x})) <= dispatched
      /\ ~(cancelled \/ error) => after + Cardinality(Cd(away \ {x})) = dispatched
  BY <1>2, <1>4
<1>6. ~(cancelled \/ error) => \A q \in parts : q \in complete \/ PartItem(q) \in away \ {x}
  BY <1>1 DEF Tracked
<1> HIDE DEF after
<1>7. Tracked(away \ {x}, flying - 1, after, cancelled \/ error, complete, dispatched, parts)
  BY <1>4, <1>5, <1>6 DEF Tracked
<1> QED
  BY <1>7 DEF x, after

\* A start failed: the item leaves with an error.
LEMMA TrackedStartFailed ==
  ASSUME NEW away, NEW flying, NEW completed, NEW cancelled, NEW complete, NEW dispatched, NEW parts,
         Tracked(away, flying, completed, cancelled, complete, dispatched, parts),
         NEW x \in away
  PROVE  Tracked(away \ {x}, flying - 1, completed, TRUE, complete, dispatched, parts)
<1>1. /\ IsFiniteSet(away) /\ Cardinality(Cd(away)) \in Nat /\ completed \in Nat
      /\ dispatched \in Int
      /\ completed + Cardinality(Cd(away)) <= dispatched
  BY CdFinite DEF Tracked
<1>2. /\ IsFiniteSet(away \ {x}) /\ Cardinality(away \ {x}) = Cardinality(away) - 1
      /\ Cardinality(Cd(away \ {x})) = Cardinality(Cd(away)) - (IF x.kind = "cd" THEN 1 ELSE 0)
  BY <1>1, CdRemove
<1>3. completed + Cardinality(Cd(away \ {x})) <= dispatched
  BY <1>1, <1>2
<1> QED
  BY <1>2, <1>3 DEF Tracked

(***************************************************************************)
(* hybrid_dispatch_next.                                                   *)
(***************************************************************************)

LEMMA NextItemIs ==
  ASSUME ArchiveOK, NEW flying \in Nat, NEW cancelled, NEW whole,
         NextItem(flying, cancelled, whole) # NoItem
  PROVE  /\ ~cancelled /\ flying < max_concurrent
         /\ \/ /\ cd_ranges_dispatched < cd_ranges_total
               /\ NextItem(flying, cancelled, whole) = CdRange(cd_ranges_dispatched)
            \/ \E p \in Parts \ part_dispatched :
                 NextItem(flying, cancelled, whole) = PartItem(p)
<1> DEFINE early == early_part_queue \ part_dispatched
           late == IF whole THEN late_part_queue \ part_dispatched ELSE {}
           item == NextItem(flying, cancelled, whole)
<1>1. item = IF cancelled \/ AtLimit(flying) THEN NoItem
             ELSE IF cd_ranges_dispatched < cd_ranges_total THEN CdRange(cd_ranges_dispatched)
             ELSE IF early # {} THEN PartItem(Min(early))
             ELSE IF late # {} THEN PartItem(Min(late))
             ELSE NoItem
  BY DEF NextItem
<1>2. /\ early \subseteq Parts \ part_dispatched /\ late \subseteq Parts \ part_dispatched
      /\ Parts \subseteq Nat
  BY QueuesHoldParts, ArchiveFacts
<1>3. early # {} => Min(early) \in early
  BY <1>2, MinOfNaturals
<1>4. late # {} => Min(late) \in late
  BY <1>2, MinOfNaturals
<1>5. item # NoItem
  OBVIOUS
<1> HIDE DEF item, early, late
<1>6. ~cancelled /\ ~AtLimit(flying)
  BY <1>1, <1>5
<1>7. flying < max_concurrent
  BY <1>6, HybridAssumption DEF AtLimit
<1>8. \/ cd_ranges_dispatched < cd_ranges_total /\ item = CdRange(cd_ranges_dispatched)
      \/ early # {} /\ item = PartItem(Min(early))
      \/ late # {} /\ item = PartItem(Min(late))
  BY <1>1, <1>5, <1>6
<1>9. \/ cd_ranges_dispatched < cd_ranges_total /\ item = CdRange(cd_ranges_dispatched)
      \/ \E p \in Parts \ part_dispatched : item = PartItem(p)
  BY <1>2, <1>3, <1>4, <1>8
<1> QED
  BY <1>6, <1>7, <1>9 DEF item

\* Nothing to start, without a limit or an error, means that nothing is left.
LEMMA NoItemMeans ==
  ASSUME ArchiveOK, NEW whole, NextItem(0, FALSE, whole) = NoItem
  PROVE  /\ ~(cd_ranges_dispatched < cd_ranges_total)
         /\ early_part_queue \subseteq part_dispatched
         /\ whole => late_part_queue \subseteq part_dispatched
<1> DEFINE early == early_part_queue \ part_dispatched
           late == IF whole THEN late_part_queue \ part_dispatched ELSE {}
<1>1. ~AtLimit(0)
  BY HybridAssumption DEF AtLimit
<1>2. NoItem = IF cd_ranges_dispatched < cd_ranges_total THEN CdRange(cd_ranges_dispatched)
               ELSE IF early # {} THEN PartItem(Min(early))
               ELSE IF late # {} THEN PartItem(Min(late))
               ELSE NoItem
  BY <1>1 DEF NextItem
<1>3. \A i : CdRange(i) # NoItem /\ PartItem(i) # NoItem
  BY DEF CdRange, PartItem, NoItem
<1> HIDE DEF early, late
<1>4. ~(cd_ranges_dispatched < cd_ranges_total) /\ early = {} /\ late = {}
  BY <1>2, <1>3
<1> QED
  BY <1>4 DEF early, late

\* The item that is dispatched was not away and is tracked from now on.
LEMMA TrackedDispatch ==
  ASSUME ArchiveOK, NEW away, NEW flying, NEW completed, NEW cancelled, NEW complete, NEW whole,
         Tracked(away, flying, completed, cancelled, complete, cd_ranges_dispatched, part_dispatched),
         NEW item, item = NextItem(flying, cancelled, whole), item # NoItem, Dispatched(item)
  PROVE  /\ item \in Items /\ item \notin away
         /\ flying \in Nat /\ flying < max_concurrent
         /\ Tracked(away \cup {item}, flying + 1, completed, cancelled, complete,
                    cd_ranges_dispatched', part_dispatched')
<1>1. /\ IsFiniteSet(away) /\ flying \in Nat /\ Cardinality(Cd(away)) \in Nat /\ completed \in Nat
      /\ cd_ranges_dispatched \in 0..cd_ranges_total /\ cd_ranges_total \in Nat
      /\ completed + Cardinality(Cd(away)) <= cd_ranges_dispatched
      /\ ~cancelled => completed + Cardinality(Cd(away)) = cd_ranges_dispatched
  BY CdFinite, ArchiveFacts DEF Tracked
<1>2. /\ flying < max_concurrent
      /\ \/ cd_ranges_dispatched < cd_ranges_total /\ item = CdRange(cd_ranges_dispatched)
         \/ \E p \in Parts \ part_dispatched : item = PartItem(p)
  BY <1>1, NextItemIs
<1>3. CASE cd_ranges_dispatched < cd_ranges_total /\ item = CdRange(cd_ranges_dispatched)
  <2>1. item.kind = "cd" /\ item.index = cd_ranges_dispatched
    BY <1>3 DEF CdRange
  <2>2. item \in Items
    BY <1>1, <1>3 DEF Items
  <2>3. item \notin away
    BY <1>1, <2>1 DEF Tracked
  <2>4. cd_ranges_dispatched' = cd_ranges_dispatched + 1 /\ part_dispatched' = part_dispatched
    BY <2>1 DEF Dispatched
  <2>5. /\ IsFiniteSet(away \cup {item}) /\ Cardinality(away \cup {item}) = Cardinality(away) + 1
        /\ Cardinality(Cd(away \cup {item})) = Cardinality(Cd(away)) + 1
    BY <1>1, <2>1, <2>3, CdAdd
  <2>6. /\ cd_ranges_dispatched' \in 0..cd_ranges_total
        /\ completed + Cardinality(Cd(away \cup {item})) <= cd_ranges_dispatched'
        /\ ~cancelled => completed + Cardinality(Cd(away \cup {item})) = cd_ranges_dispatched'
    BY <1>1, <1>3, <2>4, <2>5
  <2>7. \A x \in away \cup {item} :
          IF x.kind = "cd" THEN x.index < cd_ranges_dispatched' ELSE x.index \in part_dispatched'
    <3>1. ASSUME NEW x \in away, x.kind = "cd"
          PROVE  x.index < cd_ranges_dispatched'
      <4>1. x.index < cd_ranges_dispatched
        BY <3>1 DEF Tracked
      <4>2. x.index \in Int
        <5>1. x \in Items
          BY DEF Tracked
        <5>2. PICK i \in 0..(cd_ranges_total - 1) : x = CdRange(i)
          BY <3>1, <5>1 DEF Items, PartItem
        <5> QED
          BY <5>2 DEF CdRange
      <4> QED
        BY <1>1, <2>4, <4>1, <4>2
    <3>2. ASSUME NEW x \in away, x.kind # "cd"
          PROVE  x.index \in part_dispatched'
      BY <2>4, <3>2 DEF Tracked
    <3>3. item.index < cd_ranges_dispatched'
      BY <1>1, <2>1, <2>4
    <3> QED
      BY <2>1, <3>1, <3>2, <3>3
  <2> QED
    BY <1>1, <1>2, <2>2, <2>3, <2>4, <2>5, <2>6, <2>7 DEF Tracked
<1>4. ASSUME NEW p \in Parts \ part_dispatched, item = PartItem(p)
      PROVE  /\ item \in Items /\ item \notin away
             /\ flying \in Nat /\ flying < max_concurrent
             /\ Tracked(away \cup {item}, flying + 1, completed, cancelled, complete,
                        cd_ranges_dispatched', part_dispatched')
  <2>1. item.kind = "part" /\ item.index = p
    BY <1>4 DEF PartItem
  <2>2. item \in Items
    BY <1>4 DEF Items
  <2>3. item \notin away
    BY <2>1 DEF Tracked
  <2>4. cd_ranges_dispatched' = cd_ranges_dispatched + 0 /\ part_dispatched' = part_dispatched \cup {p}
    BY <2>1 DEF Dispatched
  <2>5. cd_ranges_dispatched' = cd_ranges_dispatched
    BY <1>1, <2>4
  <2>6. /\ IsFiniteSet(away \cup {item}) /\ Cardinality(away \cup {item}) = Cardinality(away) + 1
        /\ Cardinality(Cd(away \cup {item})) = Cardinality(Cd(away)) + 0
    BY <1>1, <2>1, <2>3, CdAdd
  <2>7. Cardinality(Cd(away \cup {item})) = Cardinality(Cd(away))
    BY <1>1, <2>6
  <2> QED
    BY <1>1, <1>2, <1>4, <2>1, <2>2, <2>3, <2>4, <2>5, <2>6, <2>7 DEF Tracked
<1> QED
  BY <1>2, <1>3, <1>4

(***************************************************************************)
(* The steps of the main thread.                                           *)
(***************************************************************************)

LEMMA HybridInitHolds == Init => HybridInv
<1> SUFFICES ASSUME Init PROVE HybridInv
  OBVIOUS
<1>1. ArchiveOK
  BY HybridAssumption DEF Init, ArchiveOK
<1>2. cd_ranges_total \in Nat \ {0}
  BY <1>1, ArchiveFacts
<1>3. Away = {} /\ Cd(Away) = {}
  BY DEF Init, Away, MainItem, Cd
<1>4. Cardinality({}) = 0 /\ IsFiniteSet({})
  BY FS_EmptySet
<1>5. Flight
  BY <1>2, <1>3, <1>4 DEF Init, Flight, Tracked
<1>6. /\ cancel_requested \in BOOLEAN /\ cd_complete \in BOOLEAN /\ assembling \in BOOLEAN
      /\ notified \in BOOLEAN
  BY Zenon DEF Init
<1>7. TypeOK
  BY <1>2, <1>6, HybridAssumption DEF Init, TypeOK
<1>8. ItemsApart /\ DirectoryFollows /\ NothingLeft
  BY <1>2 DEF Init, ItemsApart, DirectoryFollows, NothingLeft
<1> QED
  BY <1>1, <1>5, <1>7, <1>8 DEF HybridInv

\* An item that is away is counted.
LEMMA AwayIsCounted ==
  ASSUME HybridInv, NEW x \in Away
  PROVE  in_flight \in Nat \ {0} /\ in_flight <= max_concurrent
<1>1. IsFiniteSet(Away) /\ in_flight = Cardinality(Away)
  BY DEF HybridInv, Flight, Tracked
<1>2. Cardinality(Away) \in Nat /\ (Cardinality(Away) = 0 <=> Away = {})
  BY <1>1, CdFinite
<1> QED
  BY <1>1, <1>2, HybridAssumption DEF HybridInv, TypeOK

LEMMA AwaitFacts ==
  ASSUME NEW flying, NEW cancelled, NEW error_code \in {0, -1},
         AwaitWork(flying, cancelled, error_code), result \in {0, -1}
  PROVE  /\ main' \in {"waiting", "buffered", "returned"}
         /\ main_item' = NoItem /\ prev_in_flight' = 0
         /\ result' \in {0, -1} /\ notified' \in BOOLEAN
<1>1. notified' \in BOOLEAN
  BY Zenon DEF AwaitWork
<1> QED
  BY <1>1 DEF AwaitWork

\* The wait changes nothing but where main is.
LEMMA AwaitKeeps ==
  ASSUME HybridInv, UNCHANGED archive, main # "starting",
         AwaitWork(in_flight, cancel_requested, first_error_code),
         main = "begin" => NextItem(in_flight, cancel_requested, cd_complete) = NoItem,
         UNCHANGED <<in_flight, errors, cd_ranges_dispatched, cdState, part_dispatched,
                     part_complete, running, starting, relocking>>
  PROVE  HybridInv'
<1>1. /\ UNCHANGED <<Parts, cd_ranges_total, Items, early_part_queue, late_part_queue>>
      /\ ArchiveOK' = ArchiveOK
  BY ArchiveFixed
<1>2. /\ UNCHANGED <<in_flight, cancel_requested, first_error_code, cd_ranges_dispatched>>
      /\ UNCHANGED <<cd_ranges_completed, cd_complete, assembling, part_dispatched>>
      /\ UNCHANGED <<part_complete, running, starting, relocking>>
  BY DEF errors, cdState
<1>3. /\ main' \in {"waiting", "buffered", "returned"}
      /\ main_item' = NoItem /\ prev_in_flight' = 0
      /\ result' \in {0, -1} /\ notified' \in BOOLEAN
  BY AwaitFacts DEF HybridInv, TypeOK
<1>4. Away' = Away
  BY <1>2, <1>3 DEF Away, MainItem
<1>5. TypeOK'
  BY <1>1, <1>2, <1>3, HybridAssumption DEF HybridInv, TypeOK
<1>6. Flight'
  BY <1>1, <1>2, <1>4 DEF HybridInv, Flight, Tracked, Cd
<1>7. ItemsApart' /\ DirectoryFollows'
  BY <1>1, <1>2, <1>3 DEF HybridInv, ItemsApart, DirectoryFollows
<1>8. NothingLeft'
  <2> SUFFICES ASSUME ~cancel_requested, in_flight = 0, ~assembling
               PROVE  NextItem(0, FALSE, cd_complete) = NoItem
    BY <1>1, <1>2 DEF NothingLeft, NextItem
  <2>1. CASE main = "begin"
    BY <2>1 DEF NextItem
  <2>2. CASE main # "begin"
    BY <2>2 DEF HybridInv, NothingLeft
  <2> QED
    BY <2>1, <2>2
<1> QED
  BY <1>1, <1>5, <1>6, <1>7, <1>8 DEF HybridInv

LEMMA MainDispatchesKeeps ==
  ASSUME HybridInv, MainDispatches
  PROVE  HybridInv'
<1> DEFINE stop == main = "relock" /\ in_flight = prev_in_flight
           item == IF stop THEN NoItem ELSE NextItem(in_flight, cancel_requested, cd_complete)
<1>1. main \in {"begin", "relock"} /\ UNCHANGED archive
  BY DEF MainDispatches
<1>2. /\ UNCHANGED <<Parts, cd_ranges_total, Items, early_part_queue, late_part_queue>>
      /\ ArchiveOK' = ArchiveOK /\ ArchiveOK
  BY <1>1, ArchiveFixed DEF HybridInv
<1>3. CASE item = NoItem
  <2>1. /\ AwaitWork(in_flight, cancel_requested, first_error_code)
        /\ UNCHANGED <<in_flight, cd_ranges_dispatched, part_dispatched>>
        /\ UNCHANGED <<errors, cdState, part_complete, running, starting, relocking>>
    BY <1>3 DEF MainDispatches
  <2>2. main = "begin" => NextItem(in_flight, cancel_requested, cd_complete) = NoItem
    BY <1>3
  <2> QED
    BY <1>1, <2>1, <2>2, AwaitKeeps
<1>4. CASE item # NoItem
  <2>1. item = NextItem(in_flight, cancel_requested, cd_complete)
    BY <1>4
  <2>2. /\ main' = "starting" /\ main_item' = item
        /\ prev_in_flight' = in_flight /\ in_flight' = in_flight + 1
        /\ Dispatched(item)
        /\ UNCHANGED <<notified, result, errors, cdState, part_complete, running, starting, relocking>>
    BY <1>4 DEF MainDispatches
  <2> HIDE DEF item
  <2>3. /\ UNCHANGED <<cancel_requested, first_error_code>>
        /\ UNCHANGED <<cd_ranges_completed, cd_complete, assembling>>
        /\ UNCHANGED <<part_complete, running, starting, relocking, notified, result>>
    BY <2>2 DEF errors, cdState
  <2>4. Away = running \cup starting /\ Away' = Away \cup {item}
    BY <1>1, <2>2, <2>3 DEF Away, MainItem
  <2>5. Tracked(Away, in_flight, cd_ranges_completed, cancel_requested, part_complete,
                cd_ranges_dispatched, part_dispatched)
    BY DEF HybridInv, Flight
  <2>6. /\ item \in Items /\ item \notin Away
        /\ in_flight \in Nat /\ in_flight < max_concurrent
        /\ Tracked(Away \cup {item}, in_flight + 1, cd_ranges_completed, cancel_requested,
                   part_complete, cd_ranges_dispatched', part_dispatched')
    BY <1>2, <1>4, <2>1, <2>2, <2>5, TrackedDispatch
  <2>7. Flight'
    BY <1>2, <2>2, <2>3, <2>4, <2>6 DEF Flight, Tracked, Cd
  <2>8. ItemsApart'
    BY <2>2, <2>3, <2>4, <2>6 DEF HybridInv, ItemsApart
  <2>9. DirectoryFollows'
    BY <1>2, <2>3 DEF HybridInv, DirectoryFollows
  <2>10. in_flight' # 0 /\ in_flight' \in 0..max_concurrent /\ prev_in_flight' \in 0..max_concurrent
    BY <2>2, <2>6, HybridAssumption
  <2>11. NothingLeft'
    BY <2>10 DEF NothingLeft
  <2>12. cd_ranges_dispatched' \in 0..cd_ranges_total /\ part_dispatched' \subseteq Parts
    BY <2>6 DEF Tracked
  <2>13. TypeOK'
    BY <1>2, <2>2, <2>3, <2>6, <2>10, <2>12 DEF HybridInv, TypeOK
  <2> QED
    BY <1>2, <2>7, <2>8, <2>9, <2>11, <2>13 DEF HybridInv
<1> QED
  BY <1>3, <1>4

LEMMA MainStartsKeeps ==
  ASSUME HybridInv, MainStartsItem
  PROVE  HybridInv'
<1>1. /\ UNCHANGED archive /\ main = "starting" /\ main' = "relock"
      /\ running' = running \cup {main_item}
      /\ UNCHANGED <<in_flight, cancel_requested, first_error_code, cd_ranges_dispatched>>
      /\ UNCHANGED <<cd_ranges_completed, cd_complete, assembling, part_dispatched, main_item>>
      /\ UNCHANGED <<part_complete, starting, relocking, notified, result, prev_in_flight>>
  BY DEF MainStartsItem, errors, cdState
<1>2. /\ UNCHANGED <<Parts, cd_ranges_total, Items, early_part_queue, late_part_queue>>
      /\ ArchiveOK' = ArchiveOK /\ ArchiveOK
  BY <1>1, ArchiveFixed DEF HybridInv
<1>3. Away' = Away /\ main_item \in Away
  BY <1>1 DEF Away, MainItem
<1>4. main_item \in Items
  BY <1>3 DEF HybridInv, Flight, Tracked
<1>5. TypeOK'
  BY <1>1, <1>2, <1>4 DEF HybridInv, TypeOK
<1>6. Flight'
  BY <1>1, <1>2, <1>3 DEF HybridInv, Flight, Tracked, Cd
<1>7. ItemsApart' /\ DirectoryFollows'
  BY <1>1, <1>2 DEF HybridInv, ItemsApart, DirectoryFollows
<1>8. in_flight' # 0
  BY <1>1, <1>3, AwayIsCounted
<1>9. NothingLeft'
  BY <1>8 DEF NothingLeft
<1> QED
  BY <1>2, <1>5, <1>6, <1>7, <1>9 DEF HybridInv

LEMMA MainFailsKeeps ==
  ASSUME HybridInv, MainFailsToStart
  PROVE  HybridInv'
<1>1. /\ UNCHANGED archive /\ main = "starting" /\ in_flight' = in_flight - 1
      /\ cancel_requested' = TRUE /\ first_error_code' = -1
      /\ UNCHANGED <<cd_ranges_dispatched, cd_ranges_completed, cd_complete, assembling>>
      /\ UNCHANGED <<part_dispatched, part_complete, running, starting, relocking>>
  BY DEF MainFailsToStart, AfterFailedStart, cdState
<1>2. /\ main' \in {"waiting", "buffered", "returned"}
      /\ main_item' = NoItem /\ prev_in_flight' = 0
      /\ result' \in {0, -1} /\ notified' \in BOOLEAN
  BY AwaitFacts DEF MainFailsToStart, HybridInv, TypeOK
<1>3. /\ UNCHANGED <<Parts, cd_ranges_total, Items, early_part_queue, late_part_queue>>
      /\ ArchiveOK' = ArchiveOK /\ ArchiveOK
  BY <1>1, ArchiveFixed DEF HybridInv
<1>4. main_item \in Away /\ Away' = Away \ {main_item}
  BY <1>1, <1>2 DEF HybridInv, ItemsApart, Away, MainItem
<1>5. in_flight \in Nat \ {0} /\ in_flight <= max_concurrent
  BY <1>4, AwayIsCounted
<1>6. Tracked(Away \ {main_item}, in_flight - 1, cd_ranges_completed, TRUE, part_complete,
              cd_ranges_dispatched, part_dispatched)
  BY <1>4, TrackedStartFailed DEF HybridInv, Flight
<1>7. Flight'
  BY <1>1, <1>3, <1>4, <1>6 DEF Flight, Tracked, Cd
<1>8. ItemsApart' /\ DirectoryFollows' /\ NothingLeft'
  BY <1>1, <1>2 DEF HybridInv, ItemsApart, DirectoryFollows, NothingLeft
<1>9. in_flight' \in 0..max_concurrent
  BY <1>1, <1>5, HybridAssumption
<1>10. cancel_requested' \in BOOLEAN
  BY <1>1, Zenon
<1>11. TypeOK'
  BY <1>1, <1>2, <1>3, <1>9, <1>10, HybridAssumption DEF HybridInv, TypeOK
<1> QED
  BY <1>3, <1>7, <1>8, <1>11 DEF HybridInv

LEMMA MainBufferedKeeps ==
  ASSUME HybridInv, MainProcessesBuffered
  PROVE  HybridInv'
<1> DEFINE left == PartsInMemory(archive_size, central_dir_offset) \ part_complete
<1>1. /\ UNCHANGED archive /\ main = "buffered"
      /\ UNCHANGED <<in_flight, cancel_requested, first_error_code, cd_ranges_dispatched>>
      /\ UNCHANGED <<cd_ranges_completed, cd_complete, assembling, part_dispatched, main_item>>
      /\ UNCHANGED <<running, starting, relocking, notified, prev_in_flight>>
  BY DEF MainProcessesBuffered, errors, cdState
<1>2. /\ UNCHANGED <<Parts, cd_ranges_total, Items, early_part_queue, late_part_queue>>
      /\ ArchiveOK' = ArchiveOK /\ ArchiveOK
  BY <1>1, ArchiveFixed DEF HybridInv
<1>3. left # {} => Min(left) \in Parts
  <2>1. left \subseteq Parts /\ Parts \subseteq Nat
    BY <1>2, ArchiveFacts
  <2> QED
    BY <2>1, MinOfNaturals
<1>4. /\ main' \in {"buffered", "returned"} /\ result' \in {0, -1}
      /\ part_complete \subseteq part_complete' /\ part_complete' \subseteq Parts
  BY <1>1, <1>3 DEF MainProcessesBuffered, HybridInv, TypeOK
<1>5. Away' = Away
  BY <1>1, <1>4 DEF Away, MainItem
<1>6. TypeOK'
  BY <1>1, <1>2, <1>4 DEF HybridInv, TypeOK
<1>7. Flight'
  BY <1>1, <1>2, <1>4, <1>5 DEF HybridInv, Flight, Tracked, Cd
<1>8. ItemsApart' /\ DirectoryFollows'
  BY <1>1, <1>2, <1>4 DEF HybridInv, ItemsApart, DirectoryFollows
<1>9. NothingLeft'
  BY <1>1, <1>2 DEF HybridInv, NothingLeft, NextItem
<1> QED
  BY <1>2, <1>6, <1>7, <1>8, <1>9 DEF HybridInv

(***************************************************************************)
(* The steps of the callbacks.                                             *)
(***************************************************************************)

\* The end of a callback, after its own item has left.
LEMMA DispatchKeeps ==
  ASSUME ArchiveOK, UNCHANGED archive, UNCHANGED mainVars,
         NEW flying \in 0..max_concurrent, NEW cancelled, NEW whole,
         NEW mid, mid = running' \cup starting \cup MainItem,
         Tracked(mid, flying, cd_ranges_completed', cancelled, part_complete',
                 cd_ranges_dispatched, part_dispatched),
         starting \subseteq Items, running' \cap starting = {},
         main = "starting" => main_item \notin running' \cup starting,
         DispatchOrSignal(flying, cancelled, whole),
         cancel_requested' = cancelled, cd_complete' = whole, notified \in BOOLEAN
  PROVE  /\ Flight' /\ ItemsApart' /\ NothingLeft'
         /\ in_flight' \in 0..max_concurrent /\ cd_ranges_dispatched' \in 0..cd_ranges_total
         /\ part_dispatched' \subseteq Parts /\ starting' \subseteq Items
         /\ notified' \in BOOLEAN
<1> DEFINE item == NextItem(flying, cancelled, whole)
<1>1. UNCHANGED <<Parts, cd_ranges_total, Items, early_part_queue, late_part_queue>>
  BY ArchiveFixed
<1>2. UNCHANGED <<main, main_item, MainItem>>
  BY DEF mainVars, MainItem
<1>3. CASE item # NoItem
  <2>1. /\ in_flight' = flying + 1 /\ starting' = starting \cup {item}
        /\ Dispatched(item) /\ UNCHANGED notified
    BY <1>3 DEF DispatchOrSignal
  <2> HIDE DEF item
  <2>2. item = NextItem(flying, cancelled, whole)
    BY DEF item
  <2>3. /\ item \in Items /\ item \notin mid
        /\ flying \in Nat /\ flying < max_concurrent
        /\ Tracked(mid \cup {item}, flying + 1, cd_ranges_completed', cancelled, part_complete',
                   cd_ranges_dispatched', part_dispatched')
    BY <1>3, <2>1, <2>2, TrackedDispatch
  <2>4. Away' = mid \cup {item}
    BY <1>2, <2>1 DEF Away
  <2>5. Flight'
    BY <1>1, <2>1, <2>3, <2>4 DEF Flight, Tracked, Cd
  <2>6. ItemsApart'
    BY <1>2, <2>1, <2>3 DEF ItemsApart, MainItem
  <2>7. in_flight' \in 0..max_concurrent /\ in_flight' # 0
    BY <2>1, <2>3, HybridAssumption
  <2>8. NothingLeft'
    BY <2>7 DEF NothingLeft
  <2>9. cd_ranges_dispatched' \in 0..cd_ranges_total /\ part_dispatched' \subseteq Parts
    BY <2>3 DEF Tracked
  <2> QED
    BY <2>1, <2>3, <2>5, <2>6, <2>7, <2>8, <2>9
<1>4. CASE item = NoItem
  <2>1. /\ in_flight' = flying /\ notified' = NotifiedAfter(flying)
        /\ UNCHANGED <<starting, cd_ranges_dispatched, part_dispatched>>
    BY <1>4 DEF DispatchOrSignal
  <2>2. Away' = mid
    BY <1>2, <2>1 DEF Away
  <2>3. Flight'
    BY <1>1, <2>1, <2>2 DEF Flight, Tracked, Cd
  <2>4. ItemsApart'
    BY <1>2, <2>1 DEF ItemsApart
  <2>5. NothingLeft'
    <3> SUFFICES ASSUME ~cancelled, flying = 0
                 PROVE  NextItem(0, FALSE, whole) = NoItem
      BY <1>1, <2>1 DEF NothingLeft, NextItem
    <3> QED
      BY <1>4 DEF NextItem
  <2>6. notified' \in BOOLEAN
    BY <2>1, Zenon DEF NotifiedAfter
  <2>7. cd_ranges_dispatched' \in 0..cd_ranges_total /\ part_dispatched' \subseteq Parts
    BY <2>1 DEF Tracked
  <2> QED
    BY <2>1, <2>3, <2>4, <2>5, <2>6, <2>7
<1> QED
  BY <1>3, <1>4

LEMMA FinishPartKeeps ==
  ASSUME HybridInv, NEW p \in Parts, NEW error \in BOOLEAN, FinishPart(p, error)
  PROVE  HybridInv'
<1> DEFINE x == PartItem(p)
           cancelled == cancel_requested \/ error
           mid == Away \ {x}
<1>1. /\ UNCHANGED archive /\ UNCHANGED mainVars
      /\ x \in running /\ running' = running \ {x}
      /\ part_complete' = part_complete \cup {p}
      /\ cancel_requested' = cancelled
      /\ first_error_code' = IF error /\ ~cancel_requested THEN -1 ELSE first_error_code
      /\ DispatchOrSignal(in_flight - 1, cancelled, cd_complete)
      /\ UNCHANGED <<cd_ranges_completed, cd_complete, assembling, relocking>>
  BY DEF FinishPart, RecordError, cdState
<1>2. /\ UNCHANGED <<Parts, cd_ranges_total, Items>> /\ ArchiveOK' = ArchiveOK /\ ArchiveOK
  BY <1>1, ArchiveFixed DEF HybridInv
<1>3. x \in Away
  BY <1>1 DEF Away
<1>4. in_flight \in Nat \ {0} /\ in_flight <= max_concurrent
  BY <1>3, AwayIsCounted
<1>5. in_flight - 1 \in 0..max_concurrent
  BY <1>4, HybridAssumption
<1>6. Tracked(mid, in_flight - 1, cd_ranges_completed, cancelled, part_complete \cup {p},
              cd_ranges_dispatched, part_dispatched)
  BY <1>3, TrackedPartDone DEF HybridInv, Flight
<1>7. /\ mid = running' \cup starting \cup MainItem
      /\ running' \cap starting = {}
      /\ main = "starting" => main_item \notin running' \cup starting
  BY <1>1 DEF HybridInv, ItemsApart, Away, MainItem
<1>8. starting \subseteq Items /\ running \subseteq Items /\ notified \in BOOLEAN
  BY DEF HybridInv, TypeOK
<1> HIDE DEF mid, cancelled
<1>9. /\ Flight' /\ ItemsApart' /\ NothingLeft'
      /\ in_flight' \in 0..max_concurrent /\ cd_ranges_dispatched' \in 0..cd_ranges_total
      /\ part_dispatched' \subseteq Parts /\ starting' \subseteq Items
      /\ notified' \in BOOLEAN
  <2>1. Tracked(mid, in_flight - 1, cd_ranges_completed', cancelled, part_complete',
                cd_ranges_dispatched, part_dispatched)
    BY <1>1, <1>6
  <2> QED
    BY <1>1, <1>2, <1>5, <1>7, <1>8, <2>1, DispatchKeeps
<1>10. DirectoryFollows'
  BY <1>1, <1>2 DEF HybridInv, DirectoryFollows, cancelled
<1>11. cancel_requested' \in BOOLEAN
  BY <1>1, Zenon DEF cancelled
<1>12. part_complete' \subseteq Parts
  BY <1>1 DEF HybridInv, TypeOK
<1>13. UNCHANGED <<main, main_item, prev_in_flight, result>>
  BY <1>1 DEF mainVars
<1>14. TypeOK'
  BY <1>1, <1>2, <1>8, <1>9, <1>11, <1>12, <1>13 DEF HybridInv, TypeOK
<1> QED
  BY <1>2, <1>9, <1>10, <1>14 DEF HybridInv

LEMMA FinishCdRangeKeeps ==
  ASSUME HybridInv, NEW i, NEW error \in BOOLEAN, FinishCdRange(i, error)
  PROVE  HybridInv'
<1> DEFINE x == CdRange(i)
           completed == cd_ranges_completed + (IF error THEN 0 ELSE 1)
           last == ~error /\ completed = cd_ranges_total
           cancelled == cancel_requested \/ error
           mid == Away \ {x}
<1>1. /\ UNCHANGED archive /\ UNCHANGED mainVars
      /\ x \in running /\ running' = running \ {x}
      /\ cd_ranges_completed' = completed
      /\ cancel_requested' = cancelled
      /\ first_error_code' = IF error /\ ~cancel_requested THEN -1 ELSE first_error_code
      /\ UNCHANGED <<cd_complete, part_complete, relocking>>
  BY DEF FinishCdRange, RecordError
<1>2. /\ UNCHANGED <<Parts, cd_ranges_total, Items>> /\ ArchiveOK' = ArchiveOK /\ ArchiveOK
      /\ cd_ranges_total \in Nat
  BY <1>1, ArchiveFixed, ArchiveFacts DEF HybridInv
<1>3. x \in Away
  BY <1>1 DEF Away
<1>4. in_flight \in Nat \ {0} /\ in_flight <= max_concurrent
  BY <1>3, AwayIsCounted
<1>5. in_flight - 1 \in 0..max_concurrent
  BY <1>4, HybridAssumption
<1>6. Tracked(mid, in_flight - 1, completed, cancelled, part_complete,
              cd_ranges_dispatched, part_dispatched)
  BY <1>3, TrackedRangeDone DEF HybridInv, Flight
<1>7. /\ mid = running' \cup starting \cup MainItem
      /\ running' \cap starting = {}
      /\ main = "starting" => main_item \notin running' \cup starting
  BY <1>1 DEF HybridInv, ItemsApart, Away, MainItem
<1>8. starting \subseteq Items /\ running \subseteq Items /\ notified \in BOOLEAN
  BY DEF HybridInv, TypeOK
<1>9. last =>
        /\ assembling' = TRUE /\ in_flight' = in_flight - 1
        /\ UNCHANGED <<starting, cd_ranges_dispatched, part_dispatched, notified>>
  BY DEF FinishCdRange
<1>10. ~last =>
         /\ DispatchOrSignal(in_flight - 1, cancelled, cd_complete)
         /\ UNCHANGED assembling
  BY DEF FinishCdRange
<1>11. completed \in 0..cd_ranges_total
  <2>1. /\ completed \in Nat /\ IsFiniteSet(mid) /\ cd_ranges_dispatched \in 0..cd_ranges_total
        /\ completed + Cardinality(Cd(mid)) <= cd_ranges_dispatched
    BY <1>6 DEF Tracked
  <2>2. Cardinality(Cd(mid)) \in Nat
    BY <2>1, CdFinite
  <2> HIDE DEF completed, mid
  <2> QED
    BY <1>2, <2>1, <2>2
<1>12. ~last => (completed = cd_ranges_total => error)
  OBVIOUS
<1> HIDE DEF mid, cancelled, completed, last
<1>13. /\ Flight' /\ ItemsApart' /\ NothingLeft'
       /\ in_flight' \in 0..max_concurrent /\ cd_ranges_dispatched' \in 0..cd_ranges_total
       /\ part_dispatched' \subseteq Parts /\ starting' \subseteq Items
       /\ notified' \in BOOLEAN /\ assembling' \in BOOLEAN
  <2>1. CASE last
    <3>1. Away' = mid
      BY <1>1, <1>7, <1>9, <2>1 DEF Away, MainItem, mainVars
    <3>2. Flight'
      BY <1>1, <1>2, <1>6, <1>9, <2>1, <3>1 DEF Flight, Tracked, Cd
    <3>3. ItemsApart'
      BY <1>1, <1>7, <1>9, <2>1 DEF ItemsApart, mainVars
    <3>4. NothingLeft'
      BY <1>9, <2>1 DEF NothingLeft
    <3>5. assembling' \in BOOLEAN
      BY <1>9, <2>1, Zenon
    <3>6. cd_ranges_dispatched \in 0..cd_ranges_total /\ part_dispatched \subseteq Parts
      BY <1>6 DEF Tracked
    <3> QED
      BY <1>5, <1>8, <1>9, <2>1, <3>2, <3>3, <3>4, <3>5, <3>6
  <2>2. CASE ~last
    <3>1. Tracked(mid, in_flight - 1, cd_ranges_completed', cancelled, part_complete',
                  cd_ranges_dispatched, part_dispatched)
      BY <1>1, <1>6
    <3>2. /\ Flight' /\ ItemsApart' /\ NothingLeft'
          /\ in_flight' \in 0..max_concurrent /\ cd_ranges_dispatched' \in 0..cd_ranges_total
          /\ part_dispatched' \subseteq Parts /\ starting' \subseteq Items
          /\ notified' \in BOOLEAN
      BY <1>1, <1>2, <1>5, <1>7, <1>8, <1>10, <2>2, <3>1, DispatchKeeps
    <3>3. assembling' \in BOOLEAN
      BY <1>10, <2>2 DEF HybridInv, TypeOK
    <3> QED
      BY <3>2, <3>3
  <2> QED
    BY <2>1, <2>2
<1>14. DirectoryFollows'
  <2>1. CASE last
    BY <1>9, <2>1 DEF DirectoryFollows
  <2>2. CASE ~last
    BY <1>1, <1>2, <1>12, <2>2 DEF DirectoryFollows, cancelled
  <2> QED
    BY <2>1, <2>2
<1>15. cancel_requested' \in BOOLEAN
  BY <1>1, Zenon DEF cancelled
<1>16. UNCHANGED <<main, main_item, prev_in_flight, result>>
  BY <1>1 DEF mainVars
<1>17. TypeOK'
  BY <1>1, <1>2, <1>8, <1>11, <1>13, <1>15, <1>16 DEF HybridInv, TypeOK
<1> QED
  BY <1>2, <1>13, <1>14, <1>17 DEF HybridInv

LEMMA ParseDirectoryKeeps ==
  ASSUME HybridInv, NEW ok \in BOOLEAN, ParseDirectory(ok)
  PROVE  HybridInv'
<1> DEFINE cancelled == cancel_requested \/ ~ok
<1>1. /\ UNCHANGED archive /\ UNCHANGED mainVars
      /\ assembling' = FALSE /\ cd_complete' = ok
      /\ cancel_requested' = cancelled
      /\ first_error_code' = IF ok THEN first_error_code ELSE -1
      /\ DispatchOrSignal(in_flight, cancelled, ok)
      /\ UNCHANGED <<cd_ranges_completed, part_complete, running, relocking>>
  BY DEF ParseDirectory
<1>2. /\ UNCHANGED <<Parts, cd_ranges_total, Items>> /\ ArchiveOK' = ArchiveOK /\ ArchiveOK
  BY <1>1, ArchiveFixed DEF HybridInv
<1>3. Tracked(Away, in_flight, cd_ranges_completed', cancelled, part_complete',
              cd_ranges_dispatched, part_dispatched)
  BY <1>1 DEF HybridInv, Flight, Tracked
<1>4. /\ Away = running' \cup starting \cup MainItem
      /\ running' \cap starting = {}
      /\ main = "starting" => main_item \notin running' \cup starting
  BY <1>1 DEF HybridInv, ItemsApart, Away
<1>5. /\ starting \subseteq Items /\ running \subseteq Items /\ notified \in BOOLEAN
      /\ in_flight \in 0..max_concurrent
  BY DEF HybridInv, TypeOK
<1>6. cancelled \in BOOLEAN /\ assembling' \in BOOLEAN /\ cd_complete' \in BOOLEAN
  BY <1>1, Zenon
<1>7. ok => cd_complete'
  BY <1>1
<1> HIDE DEF cancelled
<1>8. /\ Flight' /\ ItemsApart' /\ NothingLeft'
      /\ in_flight' \in 0..max_concurrent /\ cd_ranges_dispatched' \in 0..cd_ranges_total
      /\ part_dispatched' \subseteq Parts /\ starting' \subseteq Items
      /\ notified' \in BOOLEAN
  BY <1>1, <1>2, <1>3, <1>4, <1>5, DispatchKeeps
<1>9. DirectoryFollows'
  BY <1>1, <1>7 DEF DirectoryFollows, cancelled
<1>10. UNCHANGED <<main, main_item, prev_in_flight, result>>
  BY <1>1 DEF mainVars
<1>11. TypeOK'
  BY <1>1, <1>2, <1>5, <1>6, <1>8, <1>10 DEF HybridInv, TypeOK
<1> QED
  BY <1>2, <1>8, <1>9, <1>11 DEF HybridInv

LEMMA CallbackStartsKeeps ==
  ASSUME HybridInv, NEW item \in starting, CallbackStartsItem(item)
  PROVE  HybridInv'
<1>1. /\ UNCHANGED archive /\ starting' = starting \ {item} /\ running' = running \cup {item}
      /\ relocking' = relocking + 1
      /\ UNCHANGED <<main, main_item, prev_in_flight, result, notified>>
      /\ UNCHANGED <<in_flight, cancel_requested, first_error_code, cd_ranges_dispatched>>
      /\ UNCHANGED <<cd_ranges_completed, cd_complete, assembling, part_dispatched, part_complete>>
  BY DEF CallbackStartsItem, errors, cdState, mainVars
<1>2. /\ UNCHANGED <<Parts, cd_ranges_total, Items, early_part_queue, late_part_queue>>
      /\ ArchiveOK' = ArchiveOK /\ ArchiveOK
  BY <1>1, ArchiveFixed DEF HybridInv
<1>3. Away' = Away
  BY <1>1 DEF Away, MainItem
<1>4. TypeOK'
  <2>1. relocking' \in Nat
    BY <1>1 DEF HybridInv, TypeOK
  <2> QED
    BY <1>1, <1>2, <2>1 DEF HybridInv, TypeOK
<1>5. Flight'
  BY <1>1, <1>2, <1>3 DEF HybridInv, Flight, Tracked, Cd
<1>6. ItemsApart' /\ DirectoryFollows'
  BY <1>1, <1>2 DEF HybridInv, ItemsApart, DirectoryFollows
<1>7. NothingLeft'
  BY <1>1, <1>2 DEF HybridInv, NothingLeft, NextItem
<1> QED
  BY <1>2, <1>4, <1>5, <1>6, <1>7 DEF HybridInv

LEMMA CallbackFailsKeeps ==
  ASSUME HybridInv, NEW item \in starting, CallbackFailsToStart(item)
  PROVE  HybridInv'
<1>1. /\ UNCHANGED archive /\ starting' = starting \ {item} /\ in_flight' = in_flight - 1
      /\ cancel_requested' = TRUE /\ first_error_code' = -1
      /\ notified' = NotifiedAfter(AfterFailedStart)
      /\ UNCHANGED <<main, main_item, prev_in_flight, result, running, relocking>>
      /\ UNCHANGED <<cd_ranges_dispatched, cd_ranges_completed, cd_complete, assembling>>
      /\ UNCHANGED <<part_dispatched, part_complete>>
  BY DEF CallbackFailsToStart, AfterFailedStart, cdState, mainVars
<1>2. /\ UNCHANGED <<Parts, cd_ranges_total, Items>> /\ ArchiveOK' = ArchiveOK /\ ArchiveOK
  BY <1>1, ArchiveFixed DEF HybridInv
<1>3. item \in Away /\ Away' = Away \ {item}
  BY <1>1 DEF HybridInv, ItemsApart, Away, MainItem
<1>4. in_flight \in Nat \ {0} /\ in_flight <= max_concurrent
  BY <1>3, AwayIsCounted
<1>5. Tracked(Away \ {item}, in_flight - 1, cd_ranges_completed, TRUE, part_complete,
              cd_ranges_dispatched, part_dispatched)
  BY <1>3, TrackedStartFailed DEF HybridInv, Flight
<1>6. Flight'
  BY <1>1, <1>2, <1>3, <1>5 DEF Flight, Tracked, Cd
<1>7. ItemsApart' /\ DirectoryFollows' /\ NothingLeft'
  BY <1>1 DEF HybridInv, ItemsApart, DirectoryFollows, NothingLeft
<1>8. in_flight' \in 0..max_concurrent
  BY <1>1, <1>4, HybridAssumption
<1>9. cancel_requested' \in BOOLEAN
  BY <1>1, Zenon
<1>10. notified \in BOOLEAN
  BY DEF HybridInv, TypeOK
<1>11. notified' \in BOOLEAN
  BY <1>1, <1>10, Zenon DEF NotifiedAfter
<1>12. TypeOK'
  BY <1>1, <1>2, <1>8, <1>9, <1>11 DEF HybridInv, TypeOK
<1> QED
  BY <1>2, <1>6, <1>7, <1>12 DEF HybridInv

LEMMA CallbackSignalsKeeps ==
  ASSUME HybridInv, CallbackSignals
  PROVE  HybridInv'
<1>1. /\ UNCHANGED archive /\ relocking > 0 /\ relocking' = relocking - 1
      /\ notified' = NotifiedAfter(in_flight)
      /\ UNCHANGED <<main, main_item, prev_in_flight, result, running, starting>>
      /\ UNCHANGED <<in_flight, cancel_requested, first_error_code, cd_ranges_dispatched>>
      /\ UNCHANGED <<cd_ranges_completed, cd_complete, assembling, part_dispatched, part_complete>>
  BY DEF CallbackSignals, errors, cdState, mainVars
<1>2. /\ UNCHANGED <<Parts, cd_ranges_total, Items, early_part_queue, late_part_queue>>
      /\ ArchiveOK' = ArchiveOK /\ ArchiveOK
  BY <1>1, ArchiveFixed DEF HybridInv
<1>3. Away' = Away
  BY <1>1 DEF Away, MainItem
<1>4. TypeOK'
  <2>1. relocking' \in Nat
    BY <1>1 DEF HybridInv, TypeOK
  <2>2. notified \in BOOLEAN
    BY DEF HybridInv, TypeOK
  <2>3. notified' \in BOOLEAN
    BY <1>1, <2>2, Zenon DEF NotifiedAfter
  <2> QED
    BY <1>1, <1>2, <2>1, <2>3 DEF HybridInv, TypeOK
<1>5. Flight'
  BY <1>1, <1>2, <1>3 DEF HybridInv, Flight, Tracked, Cd
<1>6. ItemsApart' /\ DirectoryFollows'
  BY <1>1, <1>2 DEF HybridInv, ItemsApart, DirectoryFollows
<1>7. NothingLeft'
  BY <1>1, <1>2 DEF HybridInv, NothingLeft, NextItem
<1> QED
  BY <1>2, <1>4, <1>5, <1>6, <1>7 DEF HybridInv

LEMMA StutterKeeps == ASSUME HybridInv, UNCHANGED vars PROVE HybridInv'
<1>1. /\ UNCHANGED archive /\ UNCHANGED notified
      /\ UNCHANGED <<main, main_item, prev_in_flight, result, running, starting, relocking>>
      /\ UNCHANGED <<in_flight, cancel_requested, first_error_code, cd_ranges_dispatched>>
      /\ UNCHANGED <<cd_ranges_completed, cd_complete, assembling, part_dispatched, part_complete>>
  BY DEF vars, errors, cdState, mainVars
<1>2. /\ UNCHANGED <<Parts, cd_ranges_total, Items, early_part_queue, late_part_queue>>
      /\ ArchiveOK' = ArchiveOK /\ ArchiveOK
  BY <1>1, ArchiveFixed DEF HybridInv
<1>3. Away' = Away
  BY <1>1 DEF Away, MainItem
<1>4. TypeOK'
  BY <1>1, <1>2 DEF HybridInv, TypeOK
<1>5. Flight'
  BY <1>1, <1>2, <1>3 DEF HybridInv, Flight, Tracked, Cd
<1>6. ItemsApart' /\ DirectoryFollows'
  BY <1>1, <1>2 DEF HybridInv, ItemsApart, DirectoryFollows
<1>7. NothingLeft'
  BY <1>1, <1>2 DEF HybridInv, NothingLeft, NextItem
<1> QED
  BY <1>2, <1>4, <1>5, <1>6, <1>7 DEF HybridInv

LEMMA HybridInvInductive == HybridInv /\ [Next]_vars => HybridInv'
<1> SUFFICES ASSUME HybridInv, [Next]_vars PROVE HybridInv'
  OBVIOUS
<1>1. CASE MainDispatches
  BY <1>1, MainDispatchesKeeps
<1>2. CASE MainStartsItem \/ MainFailsToStart \/ MainProcessesBuffered
  BY <1>2, MainStartsKeeps, MainFailsKeeps, MainBufferedKeeps
<1>3. CASE main = "waiting" /\ Wake
  BY <1>3, AwaitKeeps DEF Wake
<1>4. ASSUME NEW p \in Parts, FinishPart(p, TRUE) \/ FinishPart(p, FALSE)
      PROVE  HybridInv'
  BY <1>4, FinishPartKeeps
<1>5. ASSUME NEW i \in 0..(cd_ranges_total - 1), FinishCdRange(i, TRUE) \/ FinishCdRange(i, FALSE)
      PROVE  HybridInv'
  BY <1>5, FinishCdRangeKeeps
<1>6. CASE ParseDirectory(TRUE) \/ ParseDirectory(FALSE)
  BY <1>6, ParseDirectoryKeeps
<1>7. ASSUME NEW item \in starting, CallbackStartsItem(item) \/ CallbackFailsToStart(item)
      PROVE  HybridInv'
  BY <1>7, CallbackStartsKeeps, CallbackFailsKeeps
<1>8. CASE CallbackSignals
  BY <1>8, CallbackSignalsKeeps
<1>9. CASE UNCHANGED vars
  BY <1>9, StutterKeeps
<1> QED
  BY <1>1, <1>2, <1>3, <1>4, <1>5, <1>6, <1>7, <1>8, <1>9
     DEF Next, MainSteps, CallbackSteps, MainWakes, MainWakesSpuriously

(***************************************************************************)
(* Theorems.                                                               *)
(***************************************************************************)

LEMMA HybridInvariant == Spec => []HybridInv
BY HybridInitHolds, HybridInvInductive, PTL DEF Spec

\* The counters and bitmaps of struct hybrid_download_coordinator stay
\* within their arrays, and no more than max_concurrent requests are in
\* flight, for every archive and limit.
THEOREM HybridTypeCorrect == Spec => []TypeOK
<1>1. HybridInv => TypeOK
  BY DEF HybridInv
<1> QED
  BY <1>1, HybridInvariant, PTL

\* in_flight counts exactly the requests that owe a finish callback and the
\* starts under way, although hybrid_dispatch_next releases the mutex.
THEOREM HybridFlightIsExact == Spec => []InFlightIsExact
<1>1. HybridInv => InFlightIsExact
  <2> SUFFICES ASSUME HybridInv PROVE InFlightIsExact
    OBVIOUS
  <2> DEFINE requests == running \cup starting
  <2>1. IsFiniteSet(Away) /\ in_flight = Cardinality(Away)
    BY DEF HybridInv, Flight, Tracked
  <2>2. requests \subseteq Away /\ running \subseteq Away /\ starting \subseteq Away
    BY DEF Away
  <2>3. IsFiniteSet(requests) /\ IsFiniteSet(running) /\ IsFiniteSet(starting)
    BY <2>1, <2>2, FS_Subset
  <2>4. /\ Cardinality(running) \in Nat /\ Cardinality(starting) \in Nat
        /\ Cardinality(requests) = Cardinality(running) + Cardinality(starting)
    <3>1. running \cap starting = {}
      BY DEF HybridInv, ItemsApart
    <3>2. Cardinality(running) \in Nat /\ Cardinality(starting) \in Nat
      BY <2>3, FS_CardinalityType
    <3>3. Cardinality(running \cap starting) = 0
      BY <3>1, FS_EmptySet
    <3>4. Cardinality(requests)
            = Cardinality(running) + Cardinality(starting) - Cardinality(running \cap starting)
      BY <2>3, FS_Union
    <3> QED
      BY <3>2, <3>3, <3>4
  <2>5. CASE main = "starting"
    <3>1. main_item \notin requests /\ Away = requests \cup {main_item}
      BY <2>5 DEF HybridInv, ItemsApart, Away, MainItem
    <3>2. Cardinality(requests \cup {main_item}) = Cardinality(requests) + 1
      BY <2>3, <3>1, FS_AddElement
    <3> QED
      BY <2>1, <2>4, <2>5, <3>1, <3>2 DEF InFlightIsExact
  <2>6. CASE main # "starting"
    <3>1. Away = requests
      BY <2>6 DEF Away, MainItem
    <3> QED
      BY <2>1, <2>4, <2>6, <3>1 DEF InFlightIsExact
  <2> QED
    BY <2>5, <2>6
<1> QED
  BY <1>1, HybridInvariant, PTL

\* build_early_part_queue: wherever the entries start, the partial directory
\* knows every entry that starts in an early part and the one that continues
\* into it.
THEOREM EarlyQueueIsKnown == Spec => []EarlyPartsAreKnown
<1>1. HybridInv => EarlyPartsAreKnown
  BY EarlyKnown DEF HybridInv
<1> QED
  BY <1>1, HybridInvariant, PTL

\* When nothing is in flight or being parsed and there was no error, every
\* part of both queues is complete: one dispatch per callback, and one loop
\* of main, reach all of them.
THEOREM NothingStranded == Spec => []NoWorkStranded
<1>1. HybridInv => NoWorkStranded
  <2> SUFFICES ASSUME HybridInv, main \in {"waiting", "buffered", "returned"}, in_flight = 0,
                      ~assembling, ~cancel_requested
               PROVE  early_part_queue \cup late_part_queue \subseteq part_complete
    BY DEF NoWorkStranded
  <2>1. ArchiveOK /\ NextItem(0, FALSE, cd_complete) = NoItem
    BY DEF HybridInv, NothingLeft
  <2>2. /\ ~(cd_ranges_dispatched < cd_ranges_total)
        /\ early_part_queue \subseteq part_dispatched
        /\ cd_complete => late_part_queue \subseteq part_dispatched
    BY <2>1, NoItemMeans
  <2>3. /\ IsFiniteSet(Away) /\ Cardinality(Away) = 0
        /\ cd_ranges_dispatched \in 0..cd_ranges_total /\ cd_ranges_completed \in Nat
        /\ cd_ranges_completed + Cardinality(Cd(Away)) = cd_ranges_dispatched
        /\ \A p \in part_dispatched : p \in part_complete \/ PartItem(p) \in Away
    BY DEF HybridInv, Flight, Tracked
  <2>4. Away = {}
    BY <2>3, CdFinite
  <2>5. Cardinality(Cd(Away)) = 0
    <3>1. Cd(Away) = {}
      BY <2>4 DEF Cd
    <3> QED
      BY <3>1, FS_EmptySet
  <2>6. cd_ranges_completed = cd_ranges_total
    BY <2>1, <2>2, <2>3, <2>5, ArchiveFacts
  <2>7. cd_complete
    BY <2>6 DEF HybridInv, DirectoryFollows
  <2> QED
    BY <2>2, <2>3, <2>4, <2>7
<1> QED
  BY <1>1, HybridInvariant, PTL
=============================================================================
