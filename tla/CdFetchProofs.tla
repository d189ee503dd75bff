--------------------------- MODULE CdFetchProofs ---------------------------
(***************************************************************************)
(* Lemmas about the arithmetic of cd_fetch.c that the proofs about the     *)
(* coordinators and the driver share.                                      *)
(***************************************************************************)
EXTENDS CdFetch, FiniteSetTheorems, TLAPS

\* The smallest element of a set of naturals.
LEMMA MinOfNaturals ==
  ASSUME NEW S, S \subseteq Nat, S # {}
  PROVE  /\ Min(S) \in S
         /\ \A x \in S : Min(S) <= x
<1>1. \E x \in S : \A y \in S : ~(<<y, x>> \in OpToRel(<, Nat))
  BY NatLessThanWellFounded, WFMin
<1>2. PICK x \in S : \A y \in S : ~(<<y, x>> \in OpToRel(<, Nat))
  BY <1>1
<1>3. ASSUME NEW y \in S PROVE x <= y
  <2>1. x \in Nat /\ y \in Nat
    OBVIOUS
  <2>2. y < x => <<y, x>> \in OpToRel(<, Nat)
    BY <2>1, Zenon DEF OpToRel
  <2>3. ~(y < x)
    BY <1>2, <2>2, Zenon
  <2> QED
    BY <2>1, <2>3
<1> QED
  BY <1>3 DEF Min

\* The smaller and the larger of two integers.
LEMMA MinMaxOfTwo ==
  ASSUME NEW a \in Int, NEW b \in Int
  PROVE  /\ Min({a, b}) = IF a <= b THEN a ELSE b
         /\ Max({a, b}) = IF a <= b THEN b ELSE a
<1>1. \E x \in {a, b} : \A y \in {a, b} : x <= y
  OBVIOUS
<1>2. \E x \in {a, b} : \A y \in {a, b} : x >= y
  OBVIOUS
<1>3. Min({a, b}) \in {a, b} /\ \A y \in {a, b} : Min({a, b}) <= y
  BY <1>1 DEF Min
<1>4. Max({a, b}) \in {a, b} /\ \A y \in {a, b} : Max({a, b}) >= y
  BY <1>2 DEF Max
<1> QED
  BY <1>3, <1>4

(***************************************************************************)
(* Parts.                                                                  *)
(***************************************************************************)

\* The quotient brackets the offset.
LEMMA PartBrackets ==
  ASSUME NEW o \in Nat
  PROVE  /\ o \div part_size \in Nat
         /\ (o \div part_size) * part_size <= o
         /\ o < (o \div part_size) * part_size + part_size
  BY CdFetchAssumption, Z3

\* Parts are part_size apart.
LEMMA PartsApart ==
  ASSUME NEW a \in Nat, NEW b \in Nat, a < b
  PROVE  a * part_size + part_size <= b * part_size
<1>1. PICK d \in Nat : b = a + 1 + d
  <2>1. b - a - 1 \in Nat /\ b = a + 1 + (b - a - 1)
    OBVIOUS
  <2> QED
    BY <2>1
<1>2. b * part_size = a * part_size + part_size + d * part_size
  BY <1>1, CdFetchAssumption, SMT
<1>3. d * part_size >= 0
  BY CdFetchAssumption, SMT
<1> QED
  BY <1>2, <1>3, CdFetchAssumption, SMT

\* Where a part starts and ends.
LEMMA PartStart ==
  ASSUME NEW p \in Nat
  PROVE  /\ p * part_size \in Nat
         /\ (p + 1) * part_size = p * part_size + part_size
  BY CdFetchAssumption, SMT

\* The parts cover the archive, the last one not in vain.
LEMMA NumPartsCover ==
  ASSUME NEW n \in Nat \ {0}
  PROVE  /\ NumParts(n) \in Nat \ {0}
         /\ n <= NumParts(n) * part_size
         /\ (NumParts(n) - 1) * part_size < n
<1> DEFINE q == (n + part_size - 1) \div part_size
<1>1. n + part_size - 1 \in Nat
  BY CdFetchAssumption
<1>2. q \in Nat /\ q * part_size <= n + part_size - 1
        /\ n + part_size - 1 < q * part_size + part_size
  BY <1>1, PartBrackets
<1>3. q # 0
  BY <1>2, CdFetchAssumption, SMT
<1> HIDE DEF q
<1>4. NumParts(n) = q
  <2>1. NumParts(n) = Max({1, q})
    BY DEF NumParts, q
  <2>2. 1 \in Int /\ q \in Int
    BY <1>2
  <2>3. Max({1, q}) = IF 1 <= q THEN q ELSE 1
    BY <2>2, MinMaxOfTwo, Zenon
  <2> QED
    BY <2>1, <2>3, <1>2, <1>3
<1>5. (q - 1) * part_size = q * part_size - part_size
  BY <1>2, CdFetchAssumption, SMT
<1>6. q * part_size \in Nat
  BY <1>2, PartStart
<1> QED
  BY <1>2, <1>3, <1>4, <1>5, <1>6, CdFetchAssumption, SMT

\* The tail is a suffix, no longer than a part.
LEMMA TailRange ==
  ASSUME NEW n \in Nat \ {0}
  PROVE  /\ InitialStart(n) \in 0..(n - 1)
         /\ n - InitialStart(n) <= TAIL_SIZE
         /\ TAIL_SIZE <= part_size
<1>1. InitialStart(n) \in 0..(n - 1) /\ n - InitialStart(n) <= TAIL_SIZE
  BY CdFetchAssumption DEF InitialStart
<1>2. TAIL_SIZE <= part_size
  BY CdFetchAssumption, Z3
<1> QED
  BY <1>1, <1>2

(***************************************************************************)
(* Directory ranges and body segments.                                     *)
(***************************************************************************)

\* The parts calculate_cd_fetch_ranges makes a range of, and the range of
\* part p for a tail that starts at s.
FirstPart(c) == c \div part_size
LastPart(s) == (s - 1) \div part_size

RangeEnd(p, s) == IF p * part_size + part_size - 1 <= s - 1
                  THEN p * part_size + part_size - 1
                  ELSE s - 1

BodyBytes(p, c, s) ==
  IF p * part_size < c
  THEN (IF c <= RangeEnd(p, s) + 1 THEN c ELSE RangeEnd(p, s) + 1) - p * part_size
  ELSE 0

RangeOf(p, c, s) ==
  [start |-> p * part_size, end |-> RangeEnd(p, s), body_data_size |-> BodyBytes(p, c, s)]

LEMMA RangesAre ==
  ASSUME NEW c \in Nat, NEW s \in Nat
  PROVE  calculate_cd_fetch_ranges(c, s) =
           IF c >= s THEN {} ELSE {RangeOf(p, c, s) : p \in FirstPart(c)..LastPart(s)}
<1>1. CASE c >= s
  BY <1>1 DEF calculate_cd_fetch_ranges
<1>2. CASE ~(c >= s)
  <2> DEFINE PartRange(p) ==
        LET start == p * part_size
            end == Min({start + part_size - 1, s - 1})
        IN [start |-> start, end |-> end,
            body_data_size |-> IF start < c THEN Min({c, end + 1}) - start ELSE 0]
  <2>1. s - 1 \in Nat
    BY <1>2
  <2>2. FirstPart(c) \in Nat /\ LastPart(s) \in Nat
    BY <2>1, PartBrackets DEF FirstPart, LastPart
  <2>3. ASSUME NEW p \in FirstPart(c)..LastPart(s)
        PROVE  PartRange(p) = RangeOf(p, c, s)
    <3> DEFINE start == p * part_size
    <3>1. start \in Nat
      BY <2>2, PartStart
    <3>2. start + part_size - 1 \in Int /\ s - 1 \in Int
      BY <3>1, CdFetchAssumption
    <3>3. Min({start + part_size - 1, s - 1}) = RangeEnd(p, s)
      <4>1. Min({start + part_size - 1, s - 1})
              = IF start + part_size - 1 <= s - 1 THEN start + part_size - 1 ELSE s - 1
        BY <3>2, MinMaxOfTwo, Zenon
      <4> QED
        BY <4>1 DEF RangeEnd
    <3>4. RangeEnd(p, s) + 1 \in Int /\ c \in Int
      BY <3>2 DEF RangeEnd
    <3>5. Min({c, RangeEnd(p, s) + 1}) = IF c <= RangeEnd(p, s) + 1 THEN c ELSE RangeEnd(p, s) + 1
      BY <3>4, MinMaxOfTwo, Zenon
    <3> QED
      BY <3>3, <3>5, Zenon DEF RangeOf, BodyBytes
  <2>4. calculate_cd_fetch_ranges(c, s) = {PartRange(p) : p \in FirstPart(c)..LastPart(s)}
    BY <1>2, Zenon DEF calculate_cd_fetch_ranges, FirstPart, LastPart
  <2> QED
    BY <1>2, <2>3, <2>4, Zenon
<1> QED
  BY <1>1, <1>2

\* The directory's first part is not behind the tail's.
LEMMA PartsInOrder ==
  ASSUME NEW c \in Nat, NEW s \in Nat, c < s
  PROVE  FirstPart(c) \in Nat /\ LastPart(s) \in Nat /\ FirstPart(c) <= LastPart(s)
<1> DEFINE f == c \div part_size
           l == (s - 1) \div part_size
<1>1. s - 1 \in Nat /\ c <= s - 1
  OBVIOUS
<1>2. f \in Nat /\ f * part_size <= c
  BY PartBrackets
<1>3. l \in Nat /\ s - 1 < l * part_size + part_size
  BY <1>1, PartBrackets
<1> HIDE DEF f, l
<1>4. l < f => l * part_size + part_size <= f * part_size
  BY <1>2, <1>3, PartsApart
<1>5. l * part_size \in Nat /\ f * part_size \in Nat
  BY <1>2, <1>3, PartStart
<1>6. f <= l
  BY <1>1, <1>2, <1>3, <1>4, <1>5, CdFetchAssumption
<1> QED
  BY <1>2, <1>3, <1>6 DEF FirstPart, LastPart, f, l

\* A range is known by its start.
LEMMA SameStart ==
  ASSUME NEW p \in Nat, NEW q \in Nat, p * part_size = q * part_size
  PROVE  p = q
<1>1. p < q => p * part_size + part_size <= q * part_size
  BY PartsApart
<1>2. q < p => q * part_size + part_size <= p * part_size
  BY PartsApart
<1>3. p * part_size \in Nat /\ q * part_size \in Nat
  BY PartStart
<1> QED
  BY <1>1, <1>2, <1>3, CdFetchAssumption

\* There is one range per part.
LEMMA RangesCounted ==
  ASSUME NEW c \in Nat, NEW s \in Nat
  PROVE  /\ IsFiniteSet(calculate_cd_fetch_ranges(c, s))
         /\ Cardinality(calculate_cd_fetch_ranges(c, s)) =
              IF c >= s THEN 0 ELSE LastPart(s) - FirstPart(c) + 1
<1> DEFINE R == calculate_cd_fetch_ranges(c, s)
           f == FirstPart(c)
           l == LastPart(s)
<1>1. CASE c >= s
  <2>1. R = {}
    BY <1>1, RangesAre, Zenon
  <2> QED
    BY <1>1, <2>1, FS_EmptySet
<1>2. CASE ~(c >= s)
  <2>1. R = {RangeOf(p, c, s) : p \in f..l}
    BY <1>2, RangesAre, Zenon
  <2>2. f \in Nat /\ l \in Nat /\ f <= l
    BY <1>2, PartsInOrder
  <2> HIDE DEF R, f, l
  <2> DEFINE g == [p \in f..l |-> RangeOf(p, c, s)]
  <2>3. g \in [f..l -> R]
    BY <2>1
  <2>4. ASSUME NEW p \in f..l, NEW q \in f..l, g[p] = g[q] PROVE p = q
    <3>1. p * part_size = q * part_size
      BY <2>4 DEF RangeOf
    <3> QED
      BY <2>2, <3>1, SameStart
  <2>5. \A r \in R : \E p \in f..l : g[p] = r
    BY <2>1
  <2> HIDE DEF g
  <2>6. g \in Bijection(f..l, R)
    BY <2>3, <2>4, <2>5 DEF Bijection, Injection, Surjection, IsInjective
  <2>7. ExistsBijection(f..l, R)
    BY <2>6 DEF ExistsBijection
  <2>8. IsFiniteSet(f..l) /\ Cardinality(f..l) = l - f + 1
    <3>1. Cardinality(f..l) = IF f > l THEN 0 ELSE l - f + 1
      BY <2>2, FS_Interval
    <3> QED
      BY <2>2, <3>1, FS_Interval
  <2>9. IsFiniteSet(R) /\ Cardinality(R) = Cardinality(f..l)
    BY <2>7, <2>8, FS_Bijection
  <2> QED
    BY <1>2, <2>8, <2>9 DEF R, f, l
<1> QED
  BY <1>1, <1>2

\* Only the first range holds body data, and all of it up to the directory.
LEMMA OnlyFirstHasBody ==
  ASSUME NEW c \in Nat, NEW s \in Nat, c < s, NEW p \in FirstPart(c)..LastPart(s)
  PROVE  BodyBytes(p, c, s) =
           IF p = FirstPart(c) THEN c - FirstPart(c) * part_size ELSE 0
<1> DEFINE f == FirstPart(c)
<1>1. f \in Nat /\ f * part_size <= c /\ c < f * part_size + part_size
  BY PartBrackets DEF FirstPart
<1>2. LastPart(s) \in Nat
  BY PartBrackets DEF LastPart
<1>3. p \in Nat /\ f <= p /\ p * part_size \in Nat /\ f * part_size \in Nat
  BY <1>1, <1>2, PartStart
<1> HIDE DEF f
<1>4. CASE p = f
  BY <1>1, <1>3, <1>4, CdFetchAssumption DEF BodyBytes, RangeEnd, f
<1>5. CASE p # f
  <2>1. f * part_size + part_size <= p * part_size
    BY <1>1, <1>3, <1>5, PartsApart
  <2> QED
    BY <1>1, <1>3, <1>5, <2>1, CdFetchAssumption DEF BodyBytes, f
<1> QED
  BY <1>4, <1>5

\* Where the body data in memory starts.
SegmentStart(n, c) ==
  IF c >= InitialStart(n) THEN InitialStart(n) ELSE FirstPart(c) * part_size

Segment(n, c) == [archive_offset |-> SegmentStart(n, c), size |-> c - SegmentStart(n, c)]

\* The body data before the directory: from a range or from the tail, never
\* from both, and up to the directory.
LEMMA RangeSegmentsAre ==
  ASSUME NEW n \in Nat \ {0}, NEW c \in 1..(n - 1)
  PROVE  RangeSegments(c, InitialStart(n)) =
           IF c < InitialStart(n) /\ SegmentStart(n, c) < c THEN {Segment(n, c)} ELSE {}
<1> DEFINE s == InitialStart(n)
           f == FirstPart(c)
           ranges == calculate_cd_fetch_ranges(c, s)
           body == {r \in ranges : r.body_data_size > 0}
<1>1. s \in Nat /\ c \in Nat
  BY TailRange
<1>2. f \in Nat /\ f * part_size \in Nat /\ f * part_size <= c
  BY <1>1, PartBrackets, PartStart DEF FirstPart
<1> HIDE DEF s, f
<1>3. CASE c >= s
  <2>1. ranges = {}
    BY <1>1, <1>3, RangesAre, Zenon
  <2> QED
    BY <1>1, <1>3, <2>1 DEF RangeSegments, s
<1>4. CASE c < s
  <2>1. ranges = {RangeOf(p, c, s) : p \in f..LastPart(s)}
    <3>1. ~(c >= s)
      BY <1>1, <1>4
    <3> QED
      BY <1>1, <3>1, RangesAre, Zenon DEF f
  <2>2. LastPart(s) \in Nat /\ f <= LastPart(s)
    BY <1>1, <1>4, PartsInOrder DEF f
  <2>3. SegmentStart(n, c) = f * part_size
    BY <1>1, <1>4 DEF SegmentStart, s, f
  <2>4. \A p \in f..LastPart(s) :
          RangeOf(p, c, s).body_data_size = IF p = f THEN c - f * part_size ELSE 0
    BY <1>1, <1>4, OnlyFirstHasBody DEF RangeOf, f
  <2>5. f \in f..LastPart(s)
    BY <1>2, <2>2
  <2>6. CASE f * part_size < c
    <3>1. body = {RangeOf(f, c, s)}
      BY <1>1, <1>2, <2>1, <2>4, <2>5, <2>6
    <3> DEFINE first == CHOOSE r \in body : \A q \in body : r.start <= q.start
    <3>2. RangeOf(f, c, s).start <= RangeOf(f, c, s).start
      BY <1>2 DEF RangeOf
    <3>3. first = RangeOf(f, c, s)
      BY <3>1, <3>2
    <3>4. RangeSegments(c, s) = {[archive_offset |-> first.start, size |-> first.body_data_size]}
      BY <3>1 DEF RangeSegments
    <3> HIDE DEF first
    <3>5. first.start = f * part_size /\ first.body_data_size = c - f * part_size
      BY <3>3, <2>4, <2>5 DEF RangeOf
    <3> QED
      BY <1>4, <2>3, <2>6, <3>4, <3>5 DEF Segment, s
  <2>7. CASE ~(f * part_size < c)
    <3>1. body = {}
      BY <1>1, <1>2, <2>1, <2>4, <2>7
    <3>2. RangeSegments(c, s) = {}
      BY <3>1 DEF RangeSegments
    <3> QED
      BY <2>3, <2>7, <3>2 DEF s
  <2> QED
    BY <2>6, <2>7
<1> QED
  BY <1>1, <1>3, <1>4

LEMMA TailSegmentIs ==
  ASSUME NEW n \in Nat \ {0}, NEW c \in 1..(n - 1)
  PROVE  TailSegment(c, InitialStart(n), n - InitialStart(n)) =
           IF InitialStart(n) < c THEN {Segment(n, c)} ELSE {}
<1> DEFINE s == InitialStart(n)
<1>1. s \in Nat /\ c \in Nat /\ s < n
  BY TailRange
<1> HIDE DEF s
<1>2. c \in Int /\ s + (n - s) \in Int
  BY <1>1
<1>3. Min({c, s + (n - s)}) = IF c <= s + (n - s) THEN c ELSE s + (n - s)
  BY <1>2, MinMaxOfTwo, Zenon
<1>4. Min({c, s + (n - s)}) = c
  BY <1>1, <1>3
<1>5. s < c => SegmentStart(n, c) = s
  BY <1>1 DEF SegmentStart, s
<1>6. TailSegment(c, s, n - s) = IF s >= c THEN {} ELSE {[archive_offset |-> s, size |-> c - s]}
  BY <1>4, Zenon DEF TailSegment
<1> QED
  BY <1>1, <1>5, <1>6 DEF Segment, s

(***************************************************************************)
(* Parts in memory.                                                        *)
(***************************************************************************)

\* A part's body ends at its end or at the directory.
LEMMA BodyEnd ==
  ASSUME NEW p \in Nat, NEW c \in Nat
  PROVE  /\ PartBodyEnd(p, c) = IF p * part_size + part_size <= c
                                THEN p * part_size + part_size
                                ELSE c
         /\ HasBody(p, c) <=> p * part_size < c
<1>1. p * part_size \in Nat /\ (p + 1) * part_size = p * part_size + part_size
  BY PartStart
<1>2. (p + 1) * part_size \in Int /\ c \in Int
  BY <1>1, CdFetchAssumption
<1>3. Min({(p + 1) * part_size, c}) = IF (p + 1) * part_size <= c THEN (p + 1) * part_size ELSE c
  BY <1>2, MinMaxOfTwo, Zenon
<1>4. PartBodyEnd(p, c) = IF p * part_size + part_size <= c THEN p * part_size + part_size ELSE c
  BY <1>1, <1>3, Zenon DEF PartBodyEnd
<1> QED
  BY <1>1, <1>4, CdFetchAssumption DEF HasBody

\* With the one segment, the parts in memory are those between its start and
\* the directory.
LEMMA CoveredBySegment ==
  ASSUME NEW n \in Nat \ {0}, NEW c \in 1..(n - 1)
  PROVE  CoveredParts(n, c, IF SegmentStart(n, c) < c THEN {Segment(n, c)} ELSE {}) =
           {p \in 0..(NumParts(n) - 1) :
              SegmentStart(n, c) <= p * part_size /\ p * part_size < c}
<1> DEFINE start == SegmentStart(n, c)
           segs == IF start < c THEN {Segment(n, c)} ELSE {}
<1>1. start \in Nat
  <2>1. InitialStart(n) \in Nat
    BY TailRange
  <2>2. FirstPart(c) * part_size \in Nat
    BY PartBrackets, PartStart DEF FirstPart
  <2> QED
    BY <2>1, <2>2 DEF SegmentStart
<1>2. NumParts(n) \in Nat
  BY NumPartsCover
<1> HIDE DEF start
<1>3. ASSUME NEW p \in 0..(NumParts(n) - 1)
      PROVE  (/\ HasBody(p, c)
              /\ \E s \in segs : /\ s.archive_offset <= p * part_size
                                /\ s.archive_offset + s.size >= PartBodyEnd(p, c))
             <=> start <= p * part_size /\ p * part_size < c
  <2>1. p \in Nat /\ p * part_size \in Nat
    BY <1>2, PartStart
  <2>2. c \in Nat /\ (HasBody(p, c) <=> p * part_size < c) /\ PartBodyEnd(p, c) <= c
    BY <2>1, BodyEnd, CdFetchAssumption
  <2>3. Segment(n, c).archive_offset = start /\ Segment(n, c).size = c - start
    BY DEF Segment, start
  <2>4. Segment(n, c).archive_offset + Segment(n, c).size = c
    BY <1>1, <2>2, <2>3
  <2>5. CASE start < c
    <3>1. segs = {Segment(n, c)}
      BY <2>5
    <3> HIDE DEF segs
    <3> QED
      BY <2>2, <2>3, <2>4, <3>1
  <2>6. CASE ~(start < c)
    <3>1. segs = {}
      BY <2>6
    <3> QED
      BY <1>1, <2>1, <2>2, <2>6, <3>1
  <2> QED
    BY <2>5, <2>6
<1> QED
  BY <1>3, Zenon DEF CoveredParts, start

LEMMA PartsInMemoryAre ==
  ASSUME NEW n \in Nat \ {0}, NEW c \in 1..(n - 1)
  PROVE  PartsInMemory(n, c) =
           {p \in 0..(NumParts(n) - 1) :
              SegmentStart(n, c) <= p * part_size /\ p * part_size < c}
<1> DEFINE s == InitialStart(n)
           segs == RangeSegments(c, s) \cup TailSegment(c, s, n - s)
<1>1. s \in Nat /\ c \in Nat
  BY TailRange
<1>2. s < c => SegmentStart(n, c) = s
  BY <1>1 DEF SegmentStart
<1>3. c = s => SegmentStart(n, c) = s
  BY <1>1 DEF SegmentStart
<1>4. segs = IF SegmentStart(n, c) < c THEN {Segment(n, c)} ELSE {}
  <2>1. RangeSegments(c, s) = IF c < s /\ SegmentStart(n, c) < c THEN {Segment(n, c)} ELSE {}
    BY RangeSegmentsAre
  <2>2. TailSegment(c, s, n - s) = IF s < c THEN {Segment(n, c)} ELSE {}
    BY TailSegmentIs
  <2> HIDE DEF s
  <2> QED
    BY <1>1, <1>2, <1>3, <2>1, <2>2
<1>5. PartsInMemory(n, c) = CoveredParts(n, c, segs)
  BY Zenon DEF PartsInMemory
<1> QED
  BY <1>4, <1>5, CoveredBySegment

\* The parts that hold body data and are not in memory come before those
\* that are: the number of parts to download bounds them.
LEMMA DownloadedPartsComeFirst ==
  ASSUME NEW n \in Nat \ {0}, NEW c \in 1..(n - 1)
  PROVE  /\ PartsInMemory(n, c) \subseteq 0..(NumParts(n) - 1)
         /\ IsFiniteSet(PartsInMemory(n, c))
         /\ Cardinality(PartsInMemory(n, c)) \in 0..NumParts(n)
         /\ \A p \in 0..(NumParts(n) - 1) :
              HasBody(p, c) /\ p \notin PartsInMemory(n, c)
                => p < NumParts(n) - Cardinality(PartsInMemory(n, c))
<1> DEFINE num == NumParts(n)
           memory == PartsInMemory(n, c)
<1>1. num \in Nat \ {0}
  BY NumPartsCover
<1>2. memory = {p \in 0..(num - 1) : SegmentStart(n, c) <= p * part_size /\ p * part_size < c}
  BY PartsInMemoryAre
<1>3. SegmentStart(n, c) \in Nat
  <2>1. InitialStart(n) \in Nat
    BY TailRange
  <2>2. FirstPart(c) * part_size \in Nat
    BY PartBrackets, PartStart DEF FirstPart
  <2> QED
    BY <2>1, <2>2 DEF SegmentStart
<1> HIDE DEF num, memory
<1>4. IsFiniteSet(0..(num - 1)) /\ Cardinality(0..(num - 1)) = num
  BY <1>1, FS_Interval
<1>5. memory \subseteq 0..(num - 1)
  BY <1>2
<1>6. IsFiniteSet(memory) /\ Cardinality(memory) <= num
  BY <1>4, <1>5, FS_Subset
<1>7. Cardinality(memory) \in Nat
  BY <1>6, FS_CardinalityType
<1>8. ASSUME NEW p \in 0..(num - 1), HasBody(p, c), p \notin memory
      PROVE  p < num - Cardinality(memory)
  <2>1. p \in Nat /\ p * part_size \in Nat
    BY <1>1, PartStart
  <2>2. p * part_size < SegmentStart(n, c)
    BY <1>2, <1>3, <1>8, <2>1, BodyEnd
  <2>3. ASSUME NEW q \in memory PROVE q \in (p + 1)..(num - 1)
    <3>1. q \in Nat /\ q * part_size \in Nat /\ SegmentStart(n, c) <= q * part_size
      BY <1>1, <1>2, PartStart
    <3>2. q < p => q * part_size + part_size <= p * part_size
      BY <2>1, <3>1, PartsApart
    <3>3. q # p
      BY <1>3, <2>1, <2>2, <3>1
    <3>4. ~(q < p)
      BY <1>3, <2>1, <2>2, <3>1, <3>2, CdFetchAssumption
    <3> QED
      BY <1>1, <1>5, <2>1, <3>1, <3>3, <3>4
  <2>4. IsFiniteSet((p + 1)..(num - 1)) /\ Cardinality((p + 1)..(num - 1)) <= num - 1 - p
    <3>1. p + 1 \in Int /\ num - 1 \in Int
      BY <1>1, <2>1
    <3>2. Cardinality((p + 1)..(num - 1))
            = IF p + 1 > num - 1 THEN 0 ELSE (num - 1) - (p + 1) + 1
      BY <3>1, FS_Interval, Zenon
    <3>3. IsFiniteSet((p + 1)..(num - 1))
      BY <3>1, FS_Interval, Zenon
    <3> QED
      BY <1>1, <2>1, <3>2, <3>3
  <2>5. memory \subseteq (p + 1)..(num - 1)
    BY <2>3
  <2>6. Cardinality(memory) <= Cardinality((p + 1)..(num - 1))
    BY <2>4, <2>5, FS_Subset
  <2>7. Cardinality((p + 1)..(num - 1)) \in Nat
    BY <2>4, FS_CardinalityType
  <2> QED
    BY <1>1, <1>7, <2>1, <2>4, <2>6, <2>7
<1> QED
  BY <1>1, <1>5, <1>6, <1>7, <1>8 DEF num, memory
=============================================================================
