------------------------- MODULE BurstWriterProofs -------------------------
(***************************************************************************)
(* Theorems about the archive writer, for every part size, name length,    *)
(* symlink target, frame size and number of entries that satisfy           *)
(* WriterAssumption and PartIsLarge.                                       *)
(***************************************************************************)
EXTENDS BurstWriter, WellFoundedInduction, TLAPS

(***************************************************************************)
(* Arithmetic of part boundaries: what alignment_next_boundary returns and *)
(* how the space before the boundary shrinks as bytes are written.         *)
(***************************************************************************)

\* The quotient alignment_next_boundary computes brackets the offset.
LEMMA QuotientBrackets ==
  ASSUME NEW o \in Nat
  PROVE  /\ o \div PART_SIZE \in Nat
         /\ (o \div PART_SIZE) * PART_SIZE <= o
         /\ o < (o \div PART_SIZE) * PART_SIZE + PART_SIZE
  BY FormatAssumption, Z3

\* Boundaries are PART_SIZE apart.
LEMMA BoundariesApart ==
  ASSUME NEW a \in Nat, NEW b \in Nat, a < b
  PROVE  a * PART_SIZE + PART_SIZE <= b * PART_SIZE
<1>1. PICK d \in Nat : b = a + 1 + d
  <2>1. b - a - 1 \in Nat /\ b = a + 1 + (b - a - 1)
    OBVIOUS
  <2> QED
    BY <2>1
<1>2. b * PART_SIZE = a * PART_SIZE + PART_SIZE + d * PART_SIZE
  BY <1>1, FormatAssumption, SMT
<1>3. d * PART_SIZE >= 0
  BY FormatAssumption, SMT
<1> QED
  BY <1>2, <1>3, FormatAssumption, SMT

\* The quotient is the only number that brackets the offset.
LEMMA QuotientUnique ==
  ASSUME NEW o \in Nat, NEW k \in Nat, k * PART_SIZE <= o, o < k * PART_SIZE + PART_SIZE
  PROVE  o \div PART_SIZE = k
<1> DEFINE q == o \div PART_SIZE
<1>1. q \in Nat /\ q * PART_SIZE <= o /\ o < q * PART_SIZE + PART_SIZE
  BY QuotientBrackets
<1>2. ~(q < k)
  BY <1>1, BoundariesApart, FormatAssumption, SMT
<1>3. ~(k < q)
  BY <1>1, BoundariesApart, FormatAssumption, SMT
<1> QED
  BY <1>1, <1>2, <1>3, SMT

\* The next boundary lies ahead, at most a part away.
LEMMA SpaceRange ==
  ASSUME NEW o \in Nat
  PROVE  /\ alignment_next_boundary(o) \in Nat
         /\ SpaceUntilBoundary(o) \in 1..PART_SIZE
         /\ alignment_next_boundary(o) = o + SpaceUntilBoundary(o)
<1> DEFINE q == o \div PART_SIZE
<1>1. q \in Nat /\ q * PART_SIZE <= o /\ o < q * PART_SIZE + PART_SIZE
  BY QuotientBrackets
<1>2. q * PART_SIZE \in Nat
  BY <1>1, FormatAssumption, SMT
<1>3. alignment_next_boundary(o) = q * PART_SIZE + PART_SIZE
  BY <1>1, FormatAssumption, SMT DEF alignment_next_boundary
<1> HIDE DEF q
<1> QED
  BY <1>1, <1>2, <1>3, FormatAssumption, SMT DEF SpaceUntilBoundary

\* Writing fewer bytes than the space left keeps the boundary.
LEMMA SpaceShrinks ==
  ASSUME NEW o \in Nat, NEW n \in Nat, n < SpaceUntilBoundary(o)
  PROVE  SpaceUntilBoundary(o + n) = SpaceUntilBoundary(o) - n
<1> DEFINE q == o \div PART_SIZE
<1>1. q \in Nat /\ q * PART_SIZE <= o /\ o < q * PART_SIZE + PART_SIZE
  BY QuotientBrackets
<1>2. q * PART_SIZE \in Nat
  BY <1>1, FormatAssumption, SMT
<1>3. alignment_next_boundary(o) = q * PART_SIZE + PART_SIZE
  BY <1>1, FormatAssumption, SMT DEF alignment_next_boundary
<1>4. q * PART_SIZE <= o + n /\ o + n < q * PART_SIZE + PART_SIZE
  BY <1>1, <1>2, <1>3, FormatAssumption, SMT DEF SpaceUntilBoundary
<1>5. (o + n) \div PART_SIZE = q
  BY <1>1, <1>4, QuotientUnique
<1>6. alignment_next_boundary(o + n) = alignment_next_boundary(o)
  BY <1>5 DEF alignment_next_boundary
<1>7. alignment_next_boundary(o) \in Nat
  BY SpaceRange
<1> QED
  BY <1>6, <1>7, SMT DEF SpaceUntilBoundary

\* Filling the space left ends exactly on a boundary, a whole part ahead.
LEMMA SpaceRefills ==
  ASSUME NEW o \in Nat
  PROVE  SpaceUntilBoundary(o + SpaceUntilBoundary(o)) = PART_SIZE
<1> DEFINE q == o \div PART_SIZE
           b == o + SpaceUntilBoundary(o)
<1>1. q \in Nat
  BY QuotientBrackets
<1>2. b = (q + 1) * PART_SIZE /\ b \in Nat
  BY SpaceRange DEF alignment_next_boundary
<1>3. q + 1 \in Nat /\ (q + 1) * PART_SIZE <= b /\ b < (q + 1) * PART_SIZE + PART_SIZE
  BY <1>1, <1>2, FormatAssumption, SMT
<1>4. b \div PART_SIZE = q + 1
  <2> HIDE DEF q, b
  <2> QED
    BY <1>2, <1>3, QuotientUnique
<1>5. alignment_next_boundary(b) = (q + 1) * PART_SIZE + PART_SIZE
  BY <1>1, <1>4, FormatAssumption, SMT DEF alignment_next_boundary
<1> QED
  <2> HIDE DEF q
  <2>1. SpaceUntilBoundary(b) = ((q + 1) * PART_SIZE + PART_SIZE) - b
    BY <1>5 DEF SpaceUntilBoundary
  <2> QED
    BY <2>1, <1>2, FormatAssumption, SMT

\* The only boundary between an offset and its next boundary is the offset
\* itself, and then a whole part lies ahead.
LEMMA NoBoundaryInside ==
  ASSUME NEW o \in Nat, NEW k \in Nat, o <= k * PART_SIZE,
         k * PART_SIZE < o + SpaceUntilBoundary(o)
  PROVE  k * PART_SIZE = o /\ SpaceUntilBoundary(o) = PART_SIZE
<1> DEFINE q == o \div PART_SIZE
<1>1. q \in Nat /\ q * PART_SIZE <= o /\ o < q * PART_SIZE + PART_SIZE
  BY QuotientBrackets
<1>2. q * PART_SIZE \in Nat /\ k * PART_SIZE \in Nat
  BY <1>1, FormatAssumption, SMT
<1>3. o + SpaceUntilBoundary(o) = q * PART_SIZE + PART_SIZE
  <2>1. alignment_next_boundary(o) = q * PART_SIZE + PART_SIZE
    BY <1>1, FormatAssumption, SMT DEF alignment_next_boundary
  <2> QED
    BY <2>1, SpaceRange
<1>4. ~(k < q)
  BY <1>1, <1>2, BoundariesApart, FormatAssumption, SMT
<1>5. ~(q < k)
  BY <1>1, <1>2, <1>3, BoundariesApart, FormatAssumption, SMT
<1>6. k = q
  BY <1>1, <1>4, <1>5, SMT
<1>7. SpaceUntilBoundary(o) \in Int
  BY SpaceRange
<1> QED
  BY <1>1, <1>2, <1>3, <1>6, <1>7, FormatAssumption, SMT

(***************************************************************************)
(* The inductive invariant.  AlignmentRule and NoStructureCutByBoundary    *)
(* are preserved because, between two frames of a file, the position is    *)
(* never on a boundary and a padding frame always fits before the next     *)
(* one: without MidFile a frame could start a part.                        *)
(***************************************************************************)

\* The alignment rule for the bytes below "end", over all boundaries.
Rule(L, end) ==
  \A k \in Nat : k * PART_SIZE < end =>
    \E s \in L : s.at = k * PART_SIZE /\ s.kind \in EntryPoints

Uncut(L) ==
  \A s \in L : s.kind \notin {"CDFH", "End"} => s.len <= SpaceUntilBoundary(s.at)

MidFile ==
  phase = "file" =>
    /\ SpaceUntilBoundary(pos) >= BURST_MIN_SKIPPABLE_FRAME_SIZE
    /\ SpaceUntilBoundary(pos) < PART_SIZE
    /\ cur.compressed_start_offset <= pos

AlignInv ==
  /\ TypeOK
  /\ Rule(layout, DataEnd)
  /\ Uncut(layout)
  /\ MidFile

\* The sizes of the format, for the arithmetic below.
LEMMA Sizes ==
  /\ BURST_MIN_SKIPPABLE_FRAME_SIZE = 8
  /\ START_OF_PART_SIZE = 24
  /\ PADDING_LFH_MIN_SIZE = 44
  /\ DATA_DESCRIPTOR_SIZE = 16
  /\ DATA_DESCRIPTOR_ZIP64_SIZE = 24
  /\ UINT16 = 65536
  /\ SIZE_T = 1073741824
  /\ PART_SIZE \in Nat /\ PART_SIZE >= 92 /\ PART_SIZE <= SIZE_T
  BY FormatAssumption, PartIsLarge
     DEF BURST_MIN_SKIPPABLE_FRAME_SIZE, START_OF_PART_SIZE, PADDING_LFH_MIN_SIZE,
         DATA_DESCRIPTOR_SIZE, DATA_DESCRIPTOR_ZIP64_SIZE, UINT16, SIZE_T

\* A structure has the fields it was built from.
LEMMA StructureType ==
  ASSUME NEW kind \in Kinds, NEW at \in Nat, NEW len \in Nat, NEW id \in Nat,
         NEW uoff \in Nat, NEW ulen \in Nat
  PROVE  /\ Structure(kind, at, len, id, uoff, ulen) \in Structures
         /\ Structure(kind, at, len, id, uoff, ulen).kind = kind
         /\ Structure(kind, at, len, id, uoff, ulen).at = at
         /\ Structure(kind, at, len, id, uoff, ulen).len = len
         /\ Structure(kind, at, len, id, uoff, ulen).id = id
         /\ Structure(kind, at, len, id, uoff, ulen).uoff = uoff
         /\ Structure(kind, at, len, id, uoff, ulen).ulen = ulen
  BY DEF Structure, Structures

\* The rule is about boundaries: it survives a structure that starts where
\* the data ends, stays within its part and, on a boundary, is an entry point.
LEMMA RuleExtends ==
  ASSUME NEW L, NEW end \in Nat, Rule(L, end),
         NEW s \in L, s.at = end,
         SpaceUntilBoundary(end) = PART_SIZE => s.kind \in EntryPoints,
         NEW n \in Nat, n <= SpaceUntilBoundary(end)
  PROVE  Rule(L, end + n)
<1> SUFFICES ASSUME NEW k \in Nat, k * PART_SIZE < end + n
             PROVE  \E t \in L : t.at = k * PART_SIZE /\ t.kind \in EntryPoints
  BY DEF Rule
<1>1. SpaceUntilBoundary(end) \in Nat /\ k * PART_SIZE \in Nat
  BY SpaceRange, Sizes, SMT
<1>2. CASE k * PART_SIZE < end
  BY <1>2 DEF Rule
<1>3. CASE ~(k * PART_SIZE < end)
  <2>1. end <= k * PART_SIZE /\ k * PART_SIZE < end + SpaceUntilBoundary(end)
    BY <1>1, <1>3, SMT
  <2>2. k * PART_SIZE = end /\ SpaceUntilBoundary(end) = PART_SIZE
    BY <2>1, NoBoundaryInside
  <2> QED
    BY <2>2
<1> QED
  BY <1>2, <1>3

\* More structures do not break the rule.
LEMMA RuleMonotone ==
  ASSUME NEW L, NEW M, NEW end \in Nat, Rule(L, end), L \subseteq M
  PROVE  Rule(M, end)
  BY DEF Rule

\* AlignmentRule, which TLC can evaluate, is the rule up to DataEnd.
LEMMA RuleIsAlignmentRule ==
  ASSUME TypeOK
  PROVE  Rule(layout, DataEnd) <=> AlignmentRule
<1> DEFINE q == DataEnd \div PART_SIZE
<1>1. DataEnd \in Nat
  BY DEF TypeOK, DataEnd
<1>2. q \in Nat /\ DataEnd < q * PART_SIZE + PART_SIZE
  BY <1>1, QuotientBrackets
<1>3. ASSUME NEW k \in Nat, k * PART_SIZE < DataEnd
      PROVE  k \in 0..q
  <2>1. q * PART_SIZE \in Nat /\ k * PART_SIZE \in Nat
    BY <1>2, Sizes, SMT
  <2>2. ~(q < k)
    BY <1>1, <1>2, <1>3, <2>1, BoundariesApart, Sizes, SMT
  <2> QED
    BY <1>2, <2>2, SMT
<1>4. \A k \in 0..q : k \in Nat
  BY <1>2, SMT
<1> QED
  BY <1>3, <1>4 DEF Rule, AlignmentRule

\* Padding fills exactly the space before the boundary: a padding frame when
\* at least its header fits, a padding header when its extra field does.
LEMMA PaddingFills ==
  ASSUME NEW at \in Nat, NEW id \in Nat, SpaceUntilBoundary(at) >= 8
  PROVE  /\ PaddingFrame(at, id) \in Structures
         /\ PaddingFrame(at, id).kind = "Pad"
         /\ PaddingFrame(at, id).at = at
         /\ PaddingFrame(at, id).len = SpaceUntilBoundary(at)
         /\ PaddingFrame(at, id).id = id
<1> DEFINE space == SpaceUntilBoundary(at)
<1>1. space \in 1..PART_SIZE
  BY SpaceRange
<1>2. 8 + ((space - 8) % 1073741824) = space
  <2> HIDE DEF space
  <2> QED
    BY <1>1, Sizes, SpaceUntilBoundary(at) >= 8, SMT DEF space
<1>3. BURST_MIN_SKIPPABLE_FRAME_SIZE + PaddingSize(space) = space
  BY <1>2, Sizes DEF PaddingSize
<1>4. space \in Nat /\ "Pad" \in Kinds
  BY <1>1, Sizes DEF Kinds
<1>5. PaddingFrame(at, id) = Structure("Pad", at, space, id, 0, 0)
  BY <1>3 DEF PaddingFrame
<1> QED
  BY <1>4, <1>5 DEF Structure, Structures

\* A Start-of-Part frame is a 24-byte structure at its place.
LEMMA StartOfPartType ==
  ASSUME NEW at \in Nat, NEW id \in Nat, NEW u \in Nat
  PROVE  /\ StartOfPart(at, id, u) \in Structures
         /\ StartOfPart(at, id, u).kind = "SOP"
         /\ StartOfPart(at, id, u).at = at
         /\ StartOfPart(at, id, u).len = 24
         /\ StartOfPart(at, id, u).id = id
         /\ StartOfPart(at, id, u).uoff = u
<1>1. "SOP" \in Kinds /\ START_OF_PART_SIZE = 24
  BY Sizes DEF Kinds
<1> QED
  BY <1>1 DEF StartOfPart, Structure, Structures

(***************************************************************************)
(* A layout whose data ends at "end" and obeys the rules, and what adding  *)
(* one structure at its end does to it.                                    *)
(***************************************************************************)
Placed(L, end) ==
  /\ L \subseteq Structures
  /\ end \in Nat
  /\ Rule(L, end)
  /\ Uncut(L)

\* A structure that starts where the data ends and stays within its part
\* extends a layout; on a boundary it has to be an entry point.
LEMMA Place ==
  ASSUME NEW L, NEW end, Placed(L, end),
         NEW s \in Structures, s.at = end, s.len <= SpaceUntilBoundary(end),
         SpaceUntilBoundary(end) = PART_SIZE => s.kind \in EntryPoints
  PROVE  Placed(L \cup {s}, end + s.len)
<1>1. s.len \in Nat /\ end \in Nat
  BY DEF Structures, Placed
<1>2. Rule(L \cup {s}, end)
  BY <1>1, RuleMonotone DEF Placed
<1>3. Rule(L \cup {s}, end + s.len)
  BY <1>1, <1>2, RuleExtends
<1>4. Uncut(L \cup {s})
  BY DEF Uncut, Placed
<1>5. end + s.len \in Nat
  BY <1>1, SMT
<1> QED
  BY <1>3, <1>4, <1>5 DEF Placed

\* The padding header check_alignment_and_pad may write: after it, what the
\* entry needs fits before the next boundary.
LEMMA EntryPlacement ==
  ASSUME Placed(layout, pos), attempts \in Nat,
         NEW needed \in Nat, 44 <= needed, needed <= PART_SIZE, needed <= UINT16 + 44,
         CanPlaceEntry(needed)
  PROVE  /\ Placed(layout \cup PaddingLfh(needed), PosAfterPadding(needed))
         /\ SpaceUntilBoundary(PosAfterPadding(needed)) >= needed
         /\ pos <= PosAfterPadding(needed)
<1> DEFINE space == SpaceUntilBoundary(pos)
           pad == Structure("PadLFH", pos, PaddingLfhLen(space), attempts + 1, 0, 0)
<1>1. pos \in Nat /\ space \in 1..PART_SIZE
  BY SpaceRange DEF Placed
<1>2. CASE ~NeedsPaddingLfh(needed)
  <2>1. space >= needed
    BY <1>1, <1>2, Sizes, SMT DEF NeedsPaddingLfh
  <2>2. PosAfterPadding(needed) = pos /\ layout \cup PaddingLfh(needed) = layout
    BY <1>2 DEF PosAfterPadding, PaddingLfh
  <2> QED
    BY <1>1, <2>1, <2>2
<1>3. CASE NeedsPaddingLfh(needed)
  <2>1. space < needed /\ space >= 44
    BY <1>3, Sizes DEF NeedsPaddingLfh, CanPlaceEntry
  <2>2. PaddingLfhLen(space) = space
    <3>1. 44 + ((space - 44) % 65536) = space
      <4> HIDE DEF space
      <4> QED
        BY <1>1, <2>1, Sizes, SMT
    <3> QED
      BY <3>1, Sizes DEF PaddingLfhLen
  <2>3. PosAfterPadding(needed) = pos + space /\ PaddingLfh(needed) = {pad}
    BY <1>3, <2>2 DEF PosAfterPadding, PaddingLfh
  <2>4. space \in Nat
    BY <1>1, Sizes
  <2>5. pad \in Structures /\ pad.at = pos /\ pad.len = space /\ pad.kind = "PadLFH"
    <3> HIDE DEF space
    <3> QED
      BY <1>1, <2>2, <2>4 DEF Structure, Structures, Kinds
  <2>6. Placed(layout \cup {pad}, pos + space)
    <3> HIDE DEF pad
    <3>1. pad.kind \in EntryPoints /\ pad.len <= SpaceUntilBoundary(pos)
      BY <2>4, <2>5 DEF EntryPoints
    <3> QED
      BY <2>5, <3>1, Place
  <2>7. SpaceUntilBoundary(pos + space) = PART_SIZE
    BY <1>1, SpaceRefills
  <2> QED
    BY <1>1, <2>3, <2>4, <2>6, <2>7, SMT
<1> QED
  BY <1>2, <1>3

\* Facts every step while entries are added starts from, and what it has to
\* establish: the layout obeys the rules up to the position.
LEMMA PlacedWhileAdding ==
  ASSUME TypeOK, phase \in {"adding", "file"}
  PROVE  Placed(layout, pos) <=> Rule(layout, DataEnd) /\ Uncut(layout)
  BY DEF Placed, TypeOK, DataEnd

\* What PartIsLarge says of a name length, in numbers.
LEMMA NameFacts ==
  ASSUME NEW n \in NameLens
  PROVE  /\ n \in Nat
         /\ LfhLen(n) \in Nat /\ LfhLen(n) >= 46
         /\ LfhLen(n) + 68 <= PART_SIZE /\ LfhLen(n) + 24 <= UINT16
         /\ \A t \in TargetLens : t \in Nat /\ t > 0 /\ LfhLen(n) + t + 44 <= PART_SIZE
                                            /\ LfhLen(n) + t <= UINT16
<1>1. n \in Nat /\ n > 0
  BY WriterAssumption
<1>2. LfhLen(n) \in Nat /\ LfhLen(n) >= 46
  BY <1>1 DEF LfhLen
<1>3. \A t \in TargetLens : t \in Nat /\ t > 0
  BY WriterAssumption
<1> QED
  BY <1>1, <1>2, <1>3, PartIsLarge, Sizes

\* check_alignment_and_pad's space_needed for files and for the others.
LEMMA SpaceNeededIs ==
  ASSUME NEW l \in Nat, NEW c \in Nat
  PROVE  SpaceNeeded(l, c, TRUE) = l + c + 68 /\ SpaceNeeded(l, c, FALSE) = l + c + 44
  BY Sizes DEF SpaceNeeded

\* The record of a file under way is well typed.
LEMMA OpenFileType ==
  ASSUME NEW n \in Nat, NEW off \in Nat, NEW start \in Nat
  PROVE  OpenFile(n, off, start) \in OpenFiles
         /\ OpenFile(n, off, start).compressed_start_offset = start
  BY WriterAssumption DEF OpenFile, OpenFiles

\* The local header of an entry that needs "needed" bytes, with the padding
\* header before it.
LEMMA HeaderPlacement ==
  ASSUME AlignInv, phase = "adding",
         NEW n \in NameLens, NEW needed \in Nat,
         LfhLen(n) + 44 <= needed, needed <= PART_SIZE, needed <= UINT16 + 44,
         CanPlaceEntry(needed),
         NEW h, h = Structure("LFH", PosAfterPadding(needed), LfhLen(n), attempts + 1, 0, 0)
  PROVE  /\ Placed(layout \cup PaddingLfh(needed) \cup {h}, PosAfterPadding(needed) + LfhLen(n))
         /\ PosAfterPadding(needed) \in Nat
         /\ SpaceUntilBoundary(PosAfterPadding(needed) + LfhLen(n)) >= needed - LfhLen(n)
         /\ SpaceUntilBoundary(PosAfterPadding(needed) + LfhLen(n)) < PART_SIZE
<1> DEFINE at == PosAfterPadding(needed)
           l == LfhLen(n)
           L == layout \cup PaddingLfh(needed)
<1>1. l \in Nat /\ l >= 46
  BY NameFacts
<1>2. Placed(layout, pos) /\ attempts \in Nat
  BY PlacedWhileAdding DEF AlignInv, TypeOK
<1>3. 44 <= needed
  BY <1>1, SMT
<1>4. Placed(L, at) /\ SpaceUntilBoundary(at) >= needed /\ at \in Nat
  BY <1>2, <1>3, EntryPlacement DEF Placed
<1>5. h \in Structures /\ h.at = at /\ h.len = l /\ h.kind = "LFH"
  <2> HIDE DEF at, l
  <2> QED
    BY <1>1, <1>2, <1>4 DEF Structure, Structures, Kinds, at, l
<1>6. SpaceUntilBoundary(at) \in 1..PART_SIZE
  BY <1>4, SpaceRange
<1>7. l < SpaceUntilBoundary(at)
  BY <1>1, <1>4, <1>6, Sizes, SMT
<1>8. Placed(L \cup {h}, at + l)
  <2> HIDE DEF at, l, L
  <2>1. h.kind \in EntryPoints /\ h.len <= SpaceUntilBoundary(at)
    BY <1>1, <1>5, <1>6, <1>7, Sizes DEF EntryPoints
  <2> QED
    BY <1>4, <1>5, <2>1, Place
<1>9. SpaceUntilBoundary(at + l) = SpaceUntilBoundary(at) - l
  BY <1>1, <1>4, <1>7, SpaceShrinks
<1> QED
  <2> HIDE DEF at, l, L
  <2>1. SpaceUntilBoundary(at + l) >= needed - l /\ SpaceUntilBoundary(at + l) < PART_SIZE
    BY <1>1, <1>4, <1>6, <1>9, Sizes, SMT
  <2> QED
    BY <1>4, <1>8, <2>1 DEF at, l, L

\* burst_writer_add_file up to its read loop.
LEMMA BeginFileStep ==
  ASSUME AlignInv, NEW n \in NameLens, BeginFile(n)
  PROVE  AlignInv'
<1> DEFINE l == LfhLen(n)
           needed == SpaceNeeded(l, 0, TRUE)
           at == PosAfterPadding(needed)
           h == Structure("LFH", at, l, attempts + 1, 0, 0)
<1>1. phase = "adding" /\ CanPlaceEntry(needed)
  BY DEF BeginFile, NextEntry
<1>2. l \in Nat /\ l >= 46 /\ l + 68 <= PART_SIZE /\ l + 24 <= UINT16 /\ n \in Nat
  BY NameFacts
<1>3. needed = l + 68
  <2>1. needed = l + 0 + 68
    BY <1>2, SpaceNeededIs, 0 \in Nat, Zenon
  <2> HIDE DEF needed, l
  <2> QED
    BY <1>2, <2>1
<1> HIDE DEF needed, l
<1>4. needed \in Nat /\ l + 44 <= needed /\ needed <= PART_SIZE /\ needed <= UINT16 + 44
  BY <1>2, <1>3, Sizes, SMT
<1>5. /\ Placed(layout \cup PaddingLfh(needed) \cup {h}, at + l)
      /\ at \in Nat
      /\ SpaceUntilBoundary(at + l) >= needed - l
      /\ SpaceUntilBoundary(at + l) < PART_SIZE
  BY <1>1, <1>4, HeaderPlacement DEF l
<1>6. /\ layout' = layout \cup PaddingLfh(needed) \cup {h}
      /\ pos' = at + l
      /\ phase' = "file"
      /\ attempts' = attempts + 1
      /\ cur' = OpenFile(n, at, at + l)
      /\ UNCHANGED <<files, finalizeVars>>
  BY DEF BeginFile, l, needed
<1> HIDE DEF at, h
<1>7. cur' \in OpenFiles /\ cur'.compressed_start_offset = at + l
  BY <1>2, <1>5, <1>6, OpenFileType
<1>8. TypeOK'
  BY <1>2, <1>5, <1>6, <1>7 DEF AlignInv, TypeOK, Placed, finalizeVars
<1>9. Rule(layout', DataEnd') /\ Uncut(layout')
  BY <1>5, <1>6 DEF Placed, DataEnd
<1>10. MidFile'
  <2>1. SpaceUntilBoundary(at + l) >= 8
    <3>1. SpaceUntilBoundary(at + l) \in Nat
      BY <1>2, <1>5, SpaceRange, Sizes, SMT
    <3> QED
      BY <1>2, <1>3, <1>5, <3>1, SMT
  <2> QED
    BY <1>2, <1>5, <1>6, <1>7, <2>1, Sizes DEF MidFile
<1> QED
  BY <1>8, <1>9, <1>10 DEF AlignInv

\* A directory entry is well typed.
LEMMA FileEntryType ==
  ASSUME NEW id \in Nat, NEW kind \in EntryKinds, NEW n \in Nat, NEW off \in Nat,
         NEW c \in Nat, NEW u \in Nat
  PROVE  FileEntry(id, kind, n, off, c, u) \in FileEntries
  BY DEF FileEntry, FileEntries

\* Steps that finish an entry with its header (and target) alone.
LEMMA AddHeaderOnlyStep ==
  ASSUME AlignInv, NEW kind \in {"empty", "dir"}, NEW n \in NameLens, AddHeaderOnly(kind, n)
  PROVE  AlignInv' /\ SpaceUntilBoundary(pos') >= PADDING_LFH_MIN_SIZE
<1> DEFINE l == LfhLen(n)
           needed == SpaceNeeded(l, 0, kind = "empty")
           at == PosAfterPadding(needed)
           h == Structure("LFH", at, l, attempts + 1, 0, 0)
<1>1. phase = "adding" /\ CanPlaceEntry(needed)
  BY DEF AddHeaderOnly, NextEntry
<1>2. l \in Nat /\ l >= 46 /\ l + 68 <= PART_SIZE /\ l + 24 <= UINT16 /\ n \in Nat
  BY NameFacts
<1>3. needed = l + 68 \/ needed = l + 44
  <2>1. CASE kind = "empty"
    <3>1. needed = SpaceNeeded(l, 0, TRUE)
      BY <2>1, Zenon DEF SpaceNeeded
    <3>2. needed = l + 0 + 68
      BY <1>2, <3>1, SpaceNeededIs, 0 \in Nat, Zenon
    <3> HIDE DEF needed, l
    <3> QED
      BY <1>2, <3>2
  <2>2. CASE kind # "empty"
    <3>1. needed = SpaceNeeded(l, 0, FALSE)
      BY <2>2, Zenon DEF SpaceNeeded
    <3>2. needed = l + 0 + 44
      BY <1>2, <3>1, SpaceNeededIs, 0 \in Nat, Zenon
    <3> HIDE DEF needed, l
    <3> QED
      BY <1>2, <3>2
  <2> QED
    BY <2>1, <2>2
<1> HIDE DEF needed, l
<1>4. needed \in Nat /\ l + 44 <= needed /\ needed <= PART_SIZE /\ needed <= UINT16 + 44
  BY <1>2, <1>3, Sizes, SMT
<1>5. /\ Placed(layout \cup PaddingLfh(needed) \cup {h}, at + l)
      /\ at \in Nat
      /\ SpaceUntilBoundary(at + l) >= needed - l
  BY <1>1, <1>4, HeaderPlacement DEF l
<1>6. /\ layout' = layout \cup PaddingLfh(needed) \cup {h}
      /\ pos' = at + l
      /\ files' = Append(files, FileEntry(attempts + 1, kind, n, at, 0, 0))
      /\ attempts' = attempts + 1
      /\ UNCHANGED <<phase, cur, finalizeVars>>
  BY DEF AddHeaderOnly, l, needed
<1> HIDE DEF at, h
<1>7. FileEntry(attempts + 1, kind, n, at, 0, 0) \in FileEntries
  BY <1>2, <1>5, FileEntryType DEF AlignInv, TypeOK, EntryKinds
<1>8. TypeOK'
  BY <1>5, <1>6, <1>7 DEF AlignInv, TypeOK, Placed, finalizeVars
<1>9. Rule(layout', DataEnd') /\ Uncut(layout') /\ MidFile'
  BY <1>1, <1>5, <1>6 DEF Placed, DataEnd, MidFile
<1>10. SpaceUntilBoundary(pos') >= PADDING_LFH_MIN_SIZE
  <2>1. SpaceUntilBoundary(at + l) \in Nat
    BY <1>2, <1>5, SpaceRange, Sizes, SMT
  <2> QED
    BY <1>2, <1>4, <1>5, <1>6, <2>1, Sizes, SMT
<1> QED
  BY <1>8, <1>9, <1>10 DEF AlignInv

\* burst_writer_add_symlink: header and target fit before the boundary.
LEMMA AddSymlinkStep ==
  ASSUME AlignInv, NEW n \in NameLens, NEW t \in TargetLens, AddSymlink(n, t)
  PROVE  AlignInv' /\ SpaceUntilBoundary(pos') >= PADDING_LFH_MIN_SIZE
<1> DEFINE l == LfhLen(n)
           needed == SpaceNeeded(l, t, FALSE)
           at == PosAfterPadding(needed)
           h == Structure("LFH", at, l, attempts + 1, 0, 0)
           c == Structure("Content", at + l, t, attempts + 1, 0, t)
<1>1. phase = "adding" /\ CanPlaceEntry(needed)
  BY DEF AddSymlink, NextEntry
<1>2. /\ l \in Nat /\ l >= 46 /\ n \in Nat
      /\ t \in Nat /\ t > 0 /\ l + t + 44 <= PART_SIZE /\ l + t <= UINT16
  BY NameFacts
<1>3. needed = l + t + 44
  BY <1>2, SpaceNeededIs, Zenon
<1> HIDE DEF needed, l
<1>4. needed \in Nat /\ l + 44 <= needed /\ needed <= PART_SIZE /\ needed <= UINT16 + 44
  BY <1>2, <1>3, Sizes, SMT
<1>5. /\ Placed(layout \cup PaddingLfh(needed) \cup {h}, at + l)
      /\ at \in Nat
      /\ SpaceUntilBoundary(at + l) >= needed - l
      /\ SpaceUntilBoundary(at + l) < PART_SIZE
  BY <1>1, <1>4, HeaderPlacement DEF l
<1>6. /\ layout' = layout \cup PaddingLfh(needed) \cup {h, c}
      /\ pos' = at + l + t
      /\ files' = Append(files, FileEntry(attempts + 1, "symlink", n, at, t, t))
      /\ attempts' = attempts + 1
      /\ UNCHANGED <<phase, cur, finalizeVars>>
  BY DEF AddSymlink, l, needed
<1>7. c \in Structures /\ c.at = at + l /\ c.len = t
  <2> HIDE DEF at
  <2> QED
    BY <1>2, <1>5 DEF AlignInv, TypeOK, Structure, Structures, Kinds
<1> HIDE DEF at, h, c
<1>8. FileEntry(attempts + 1, "symlink", n, at, t, t) \in FileEntries
  BY <1>2, <1>5, FileEntryType DEF AlignInv, TypeOK, EntryKinds
<1>9. Placed(layout', pos')
  <2> DEFINE L == layout \cup PaddingLfh(needed) \cup {h}
             e == at + l
  <2>1. L \cup {c} = layout' /\ e + t = pos'
    BY <1>6
  <2>2. SpaceUntilBoundary(e) \in Nat
    BY <1>2, <1>5, SpaceRange, Sizes, SMT
  <2>3. t <= SpaceUntilBoundary(e)
    BY <1>2, <1>3, <1>5, <2>2, SMT
  <2>4. SpaceUntilBoundary(e) # PART_SIZE
    BY <1>5, <2>2, Sizes
  <2>5. Placed(L, e) /\ c.at = e /\ c.len = t
    BY <1>5, <1>7
  <2> HIDE DEF L, e
  <2>6. Placed(L \cup {c}, e + c.len)
    BY <1>7, <2>3, <2>4, <2>5, Place
  <2> QED
    BY <2>1, <2>5, <2>6
<1>10. TypeOK'
  BY <1>6, <1>8, <1>9 DEF AlignInv, TypeOK, Placed, finalizeVars
<1>11. Rule(layout', DataEnd') /\ Uncut(layout') /\ MidFile'
  BY <1>1, <1>6, <1>9 DEF Placed, DataEnd, MidFile
<1>12. SpaceUntilBoundary(pos') >= PADDING_LFH_MIN_SIZE
  <2> DEFINE e == at + l
  <2>1. e \in Nat /\ SpaceUntilBoundary(e) \in Nat
    BY <1>2, <1>5, SpaceRange, Sizes, SMT
  <2>2. pos' = e + t /\ SpaceUntilBoundary(e) >= t + 44
    BY <1>2, <1>3, <1>5, <1>6, <2>1, SMT
  <2> HIDE DEF e
  <2>3. SpaceUntilBoundary(e + t) = SpaceUntilBoundary(e) - t
    BY <1>2, <2>1, <2>2, SpaceShrinks
  <2> QED
    BY <1>2, <2>1, <2>2, <2>3, Sizes, SMT
<1> QED
  BY <1>10, <1>11, <1>12 DEF AlignInv

(***************************************************************************)
(* Inside a file: frames, padding frames and Start-of-Part frames.         *)
(***************************************************************************)

\* A structure that leaves space before the boundary.
LEMMA PlaceBefore ==
  ASSUME NEW L, NEW end, Placed(L, end),
         NEW s \in Structures, s.at = end, s.len < SpaceUntilBoundary(end),
         SpaceUntilBoundary(end) = PART_SIZE => s.kind \in EntryPoints
  PROVE  /\ Placed(L \cup {s}, end + s.len)
         /\ SpaceUntilBoundary(end + s.len) = SpaceUntilBoundary(end) - s.len
<1>1. s.len \in Nat /\ end \in Nat
  BY DEF Structures, Placed
<1>2. SpaceUntilBoundary(end) \in Nat
  BY <1>1, SpaceRange, Sizes
<1>3. s.len <= SpaceUntilBoundary(end)
  BY <1>1, <1>2
<1> QED
  BY <1>1, <1>3, Place, SpaceShrinks

\* A structure that ends exactly on the boundary.
LEMMA PlaceUpTo ==
  ASSUME NEW L, NEW end, Placed(L, end),
         NEW s \in Structures, s.at = end, s.len = SpaceUntilBoundary(end),
         SpaceUntilBoundary(end) # PART_SIZE
  PROVE  /\ Placed(L \cup {s}, end + s.len)
         /\ SpaceUntilBoundary(end + s.len) = PART_SIZE
<1>1. s.len \in Nat /\ end \in Nat
  BY DEF Structures, Placed
<1>2. s.len <= SpaceUntilBoundary(end)
  BY <1>1
<1> QED
  BY <1>1, <1>2, Place, SpaceRefills

\* A Start-of-Part frame on the boundary.
LEMMA PlaceStartOfPart ==
  ASSUME NEW L, NEW end, Placed(L, end), SpaceUntilBoundary(end) = PART_SIZE,
         NEW id \in Nat, NEW u \in Nat
  PROVE  /\ Placed(L \cup {StartOfPart(end, id, u)}, end + 24)
         /\ SpaceUntilBoundary(end + 24) = PART_SIZE - 24
<1> DEFINE s == StartOfPart(end, id, u)
<1>1. end \in Nat
  BY DEF Placed
<1>2. s \in Structures /\ s.at = end /\ s.len = 24 /\ s.kind \in EntryPoints
  BY <1>1, StartOfPartType DEF EntryPoints
<1> HIDE DEF s
<1>3. s.len < SpaceUntilBoundary(end)
  BY <1>2, Sizes
<1> QED
  BY <1>2, <1>3, PlaceBefore DEF s

\* Padding to the boundary and a Start-of-Part frame, as add_file writes
\* them before a frame that does not fit and before a late descriptor.
LEMMA PlacePadding ==
  ASSUME NEW L, NEW end, Placed(L, end),
         SpaceUntilBoundary(end) >= 8, SpaceUntilBoundary(end) # PART_SIZE,
         NEW id \in Nat, NEW u \in Nat,
         NEW pad, pad = PaddingFrame(end, id)
  PROVE  /\ pad.len \in Nat
         /\ Placed(L \cup {pad, StartOfPart(end + pad.len, id, u)}, end + pad.len + 24)
         /\ SpaceUntilBoundary(end + pad.len + 24) = PART_SIZE - 24
<1> DEFINE b == end + pad.len
           s == StartOfPart(b, id, u)
<1>1. end \in Nat
  BY DEF Placed
<1>2. pad \in Structures /\ pad.at = end /\ pad.len = SpaceUntilBoundary(end)
  BY <1>1, PaddingFills
<1>3. pad.len \in Nat
  BY <1>2 DEF Structures
<1>4. Placed(L \cup {pad}, b) /\ SpaceUntilBoundary(b) = PART_SIZE
  BY <1>2, PlaceUpTo
<1>5. Placed(L \cup {pad} \cup {s}, b + 24) /\ SpaceUntilBoundary(b + 24) = PART_SIZE - 24
  <2> HIDE DEF b
  <2> QED
    BY <1>4, PlaceStartOfPart
<1>6. L \cup {pad} \cup {s} = L \cup {pad, s}
  OBVIOUS
<1> QED
  BY <1>3, <1>5, <1>6

\* What the assumptions say of a frame and of a read, in numbers.
LEMMA FrameFacts ==
  ASSUME NEW f \in FrameSizes, NEW r \in ReadSizes
  PROVE  f \in Nat /\ f > 0 /\ f + 32 <= PART_SIZE /\ r \in Nat /\ r > 0
<1>1. f \in Nat /\ f > 0 /\ r \in Nat /\ r > 0
  BY WriterAssumption
<1> QED
  BY <1>1, PartIsLarge, Sizes

\* An iteration of the read loop, for each of the decisions it may take.
LEMMA WriteFrameStep ==
  ASSUME AlignInv, NEW r \in ReadSizes, NEW f \in FrameSizes, WriteFrame(r, f)
  PROVE  AlignInv' /\ pos <= pos' /\ pos' \in Nat
<1> DEFINE action == alignment_decide(pos, f, r < ZSTD_CHUNK_SIZE)
           done == cur.total_uncompressed
           space == SpaceUntilBoundary(pos)
           FrameAt(at) == Structure("Frame", at, f, attempts, done, r)
           pad == PaddingFrame(pos, attempts)
           next == pos + pad.len
<1>1. f \in Nat /\ f > 0 /\ f + 32 <= PART_SIZE /\ r \in Nat
  BY FrameFacts
<1>2. phase = "file" /\ pos \in Nat /\ attempts \in Nat /\ cur \in OpenFiles
  BY DEF WriteFrame, AlignInv, TypeOK
<1>3. done \in Nat /\ done + r \in Nat
  BY <1>1, <1>2 DEF OpenFiles
<1>3a. UncompressedBefore(done + r, r) = done
  <2> HIDE DEF done
  <2> QED
    BY <1>1, <1>3 DEF UncompressedBefore
<1>4. /\ Placed(layout, pos)
      /\ space \in Nat /\ space >= 8 /\ space < PART_SIZE
      /\ cur.compressed_start_offset \in Nat /\ cur.compressed_start_offset <= pos
  BY <1>2, PlacedWhileAdding, SpaceRange, Sizes DEF AlignInv, MidFile, OpenFiles
<1>5. /\ UNCHANGED <<phase, files, attempts, finalizeVars>>
      /\ cur' = [cur EXCEPT !.total_uncompressed = done + r,
                            !.bytes_read = r, !.frames = @ + 1]
  BY DEF WriteFrame
<1>6. cur' \in OpenFiles /\ cur'.compressed_start_offset = cur.compressed_start_offset
  <2>1. cur' = [cur EXCEPT !.total_uncompressed = done + r,
                           !.bytes_read = r, !.frames = @ + 1]
    BY <1>5
  <2> HIDE DEF done
  <2>2. cur.frames + 1 \in Nat
    BY <1>2 DEF OpenFiles
  <2> QED
    BY <1>1, <1>2, <1>3, <2>1, <2>2 DEF OpenFiles
<1>7. \A at \in Nat : FrameAt(at) \in Structures /\ FrameAt(at).at = at /\ FrameAt(at).len = f
  BY <1>1, <1>2, <1>3 DEF Structure, Structures, Kinds
<1>8. /\ action = "WRITE_FRAME" => space >= f + 8
      /\ action = "WRITE_FRAME_THEN_METADATA" => space = f
  <2> HIDE DEF space
  <2> QED
    BY <1>1, <1>4, Sizes DEF alignment_decide, space
<1>9. \/ /\ action = "WRITE_FRAME"
         /\ layout' = layout \cup {FrameAt(pos)}
         /\ pos' = pos + f
      \/ /\ action = "WRITE_FRAME_THEN_METADATA"
         /\ layout' = layout \cup {FrameAt(pos), StartOfPart(pos + f, attempts, done + r)}
         /\ pos' = pos + f + START_OF_PART_SIZE
      \/ /\ action = "PAD_THEN_METADATA"
         /\ layout' = layout \cup {pad, StartOfPart(next, attempts, done),
                                   FrameAt(next + START_OF_PART_SIZE)}
         /\ pos' = next + START_OF_PART_SIZE + f
  BY <1>3a DEF WriteFrame
<1> HIDE DEF action, FrameAt, space
<1>10. /\ Placed(layout', pos')
       /\ SpaceUntilBoundary(pos') \in Nat
       /\ SpaceUntilBoundary(pos') >= 8
       /\ SpaceUntilBoundary(pos') < PART_SIZE
       /\ pos <= pos'
  <2>1. CASE /\ action = "WRITE_FRAME"
             /\ layout' = layout \cup {FrameAt(pos)}
             /\ pos' = pos + f
    <3>1. space >= f + 8
      BY <1>8, <2>1
    <3>2. f < space
      BY <1>1, <1>4, <3>1
    <3>3. FrameAt(pos).len < SpaceUntilBoundary(pos) /\ SpaceUntilBoundary(pos) # PART_SIZE
      BY <1>2, <1>4, <1>7, <3>2, Sizes DEF space
    <3>4. Placed(layout', pos') /\ SpaceUntilBoundary(pos') = space - f
      <4> DEFINE F == FrameAt(pos)
      <4>1. F \in Structures /\ F.at = pos /\ F.len = f
        BY <1>2, <1>7
      <4> HIDE DEF F
      <4>2. /\ Placed(layout \cup {F}, pos + F.len)
            /\ SpaceUntilBoundary(pos + F.len) = SpaceUntilBoundary(pos) - F.len
        BY <1>4, <3>3, <4>1, PlaceBefore DEF F
      <4> QED
        BY <2>1, <4>1, <4>2 DEF F, space
    <3> QED
      BY <1>1, <1>2, <1>4, <2>1, <3>1, <3>4, Sizes
  <2>2. CASE /\ action = "WRITE_FRAME_THEN_METADATA"
             /\ layout' = layout \cup {FrameAt(pos), StartOfPart(pos + f, attempts, done + r)}
             /\ pos' = pos + f + START_OF_PART_SIZE
    <3>1. FrameAt(pos).len = SpaceUntilBoundary(pos) /\ SpaceUntilBoundary(pos) # PART_SIZE
      BY <1>2, <1>4, <1>7, <1>8, <2>2, Sizes DEF space
    <3>2. Placed(layout \cup {FrameAt(pos)}, pos + f) /\ SpaceUntilBoundary(pos + f) = PART_SIZE
      BY <1>2, <1>4, <1>7, <3>1, PlaceUpTo
    <3>3. /\ Placed(layout \cup {FrameAt(pos)} \cup {StartOfPart(pos + f, attempts, done + r)},
                    pos + f + 24)
          /\ SpaceUntilBoundary(pos + f + 24) = PART_SIZE - 24
      BY <1>2, <1>3, <3>2, PlaceStartOfPart
    <3>4. Placed(layout', pos') /\ SpaceUntilBoundary(pos') = PART_SIZE - 24
      <4>1. layout' = layout \cup {FrameAt(pos)} \cup {StartOfPart(pos + f, attempts, done + r)}
        BY <2>2
      <4>2. pos' = pos + f + 24
        BY <2>2, Sizes
      <4> QED
        BY <3>3, <4>1, <4>2
    <3> QED
      BY <1>1, <1>2, <2>2, <3>4, Sizes
  <2>3. CASE /\ action = "PAD_THEN_METADATA"
             /\ layout' = layout \cup {pad, StartOfPart(next, attempts, done),
                                       FrameAt(next + START_OF_PART_SIZE)}
             /\ pos' = next + START_OF_PART_SIZE + f
    <3> DEFINE L == layout \cup {pad, StartOfPart(next, attempts, done)}
               b == next + 24
    <3>0. SpaceUntilBoundary(pos) >= 8 /\ SpaceUntilBoundary(pos) # PART_SIZE
      BY <1>4, Sizes DEF space
    <3>1. pad.len \in Nat /\ Placed(L, b) /\ SpaceUntilBoundary(b) = PART_SIZE - 24
      <4> HIDE DEF done
      <4>1. /\ pad.len \in Nat
            /\ Placed(layout \cup {pad, StartOfPart(pos + pad.len, attempts, done)},
                      pos + pad.len + 24)
            /\ SpaceUntilBoundary(pos + pad.len + 24) = PART_SIZE - 24
        <5>1. Placed(layout, pos) /\ attempts \in Nat /\ done \in Nat
          BY <1>2, <1>3, <1>4
        <5> QED
          BY <3>0, <5>1, PlacePadding
      <4> QED
        BY <4>1
    <3>2. layout' = L \cup {FrameAt(b)} /\ pos' = b + f
      BY <2>3, Sizes
    <3>3. b \in Nat /\ pos <= b
      BY <1>2, <3>1
    <3> HIDE DEF L, b
    <3>4. FrameAt(b).len < SpaceUntilBoundary(b) /\ SpaceUntilBoundary(b) # PART_SIZE
      BY <1>1, <1>7, <3>1, <3>3, Sizes
    <3>5. Placed(layout', pos') /\ SpaceUntilBoundary(pos') = PART_SIZE - 24 - f
      BY <1>7, <3>1, <3>2, <3>3, <3>4, PlaceBefore
    <3> QED
      BY <1>1, <1>2, <3>2, <3>3, <3>5, Sizes
  <2> QED
    BY <1>9, <2>1, <2>2, <2>3
<1>11. TypeOK'
  BY <1>5, <1>6, <1>10 DEF AlignInv, TypeOK, Placed, finalizeVars
<1>12. Rule(layout', DataEnd') /\ Uncut(layout')
  BY <1>2, <1>5, <1>10 DEF Placed, DataEnd
<1>13. MidFile'
  <2>1. pos' \in Nat
    BY <1>10 DEF Placed
  <2> QED
    BY <1>2, <1>4, <1>6, <1>10, <2>1, Sizes DEF MidFile
<1> QED
  BY <1>10, <1>11, <1>12, <1>13 DEF AlignInv, Placed

\* The end of burst_writer_add_file, with and without trailing padding.
LEMMA EndFileStep ==
  ASSUME AlignInv, EndFile
  PROVE  AlignInv' /\ SpaceUntilBoundary(pos') >= PADDING_LFH_MIN_SIZE
<1> DEFINE csize == pos - cur.compressed_start_offset
           usize == cur.total_uncompressed
           dsize == DescriptorSize(csize, usize)
           space == SpaceUntilBoundary(pos)
           pads == NeedsTrailingPadding(space, dsize)
           pad == PaddingFrame(pos, attempts)
           at == IF pads THEN pos + pad.len + START_OF_PART_SIZE ELSE pos
           L == layout
                \cup (IF pads THEN {pad, StartOfPart(pos + pad.len, attempts, usize)} ELSE {})
           d == Structure("DD", at, dsize, attempts, 0, 0)
           e == FileEntry(attempts, "file", cur.name_len, cur.local_header_offset, csize, usize)
<1>1. phase = "file" /\ pos \in Nat /\ attempts \in Nat /\ cur \in OpenFiles
  BY DEF EndFile, AlignInv, TypeOK
<1>2. /\ Placed(layout, pos)
      /\ space \in Nat /\ space >= 8 /\ space < PART_SIZE
      /\ cur.compressed_start_offset \in Nat /\ cur.compressed_start_offset <= pos
  BY <1>1, PlacedWhileAdding, SpaceRange, Sizes DEF AlignInv, MidFile, OpenFiles
<1>3. csize \in Nat /\ usize \in Nat /\ cur.name_len \in Nat /\ cur.local_header_offset \in Nat
  BY <1>1, <1>2 DEF OpenFiles
<1>4. dsize \in Nat /\ 0 < dsize /\ dsize <= 24
  BY Sizes DEF DescriptorSize
<1>5. /\ layout' = L \cup {d}
      /\ pos' = at + dsize
      /\ files' = Append(files, e)
      /\ cur' = NoFile
      /\ phase' = "adding"
      /\ UNCHANGED <<attempts, finalizeVars>>
  BY DEF EndFile
<1>6. e \in FileEntries
  BY <1>1, <1>3, FileEntryType DEF EntryKinds
<1>7. cur' \in OpenFiles
  BY <1>5, OpenFileType DEF NoFile
<1> HIDE DEF csize, usize, dsize, space, e
<1>8. /\ Placed(L, at) /\ at \in Nat
      /\ SpaceUntilBoundary(at) \in Nat
      /\ SpaceUntilBoundary(at) < PART_SIZE
      /\ SpaceUntilBoundary(at) >= dsize + 44
  <2>1. CASE pads
    <3>1. at = pos + pad.len + 24 /\ L = layout \cup {pad, StartOfPart(pos + pad.len, attempts, usize)}
      BY <2>1, Sizes
    <3>2. /\ Placed(layout \cup {pad, StartOfPart(pos + pad.len, attempts, usize)},
                    pos + pad.len + 24)
          /\ SpaceUntilBoundary(pos + pad.len + 24) = PART_SIZE - 24
      <4>1. SpaceUntilBoundary(pos) >= 8 /\ SpaceUntilBoundary(pos) # PART_SIZE
        BY <1>2, Sizes DEF space
      <4>2. Placed(layout, pos) /\ attempts \in Nat /\ usize \in Nat
        BY <1>1, <1>2, <1>3
      <4>3. pad = PaddingFrame(pos, attempts)
        OBVIOUS
      <4> HIDE DEF pad
      <4> QED
        BY <4>1, <4>2, <4>3, PlacePadding
    <3>3. Placed(L, at) /\ SpaceUntilBoundary(at) = PART_SIZE - 24
      BY <3>1, <3>2
    <3>4. at \in Nat
      BY <3>3 DEF Placed
    <3> QED
      BY <1>4, <3>3, <3>4, Sizes
  <2>2. CASE ~pads
    <3>1. at = pos /\ L = layout
      BY <2>2
    <3>2. space >= dsize + 44
      BY <1>2, <1>4, <2>2, Sizes DEF NeedsTrailingPadding
    <3> QED
      BY <1>1, <1>2, <3>1, <3>2 DEF space
  <2> QED
    BY <2>1, <2>2
<1> HIDE DEF at, L
<1>9. d \in Structures /\ d.at = at /\ d.len = dsize
  BY <1>1, <1>4, <1>8 DEF Structure, Structures, Kinds
<1> HIDE DEF d
<1>10. Placed(layout', pos') /\ SpaceUntilBoundary(pos') = SpaceUntilBoundary(at) - dsize
  <2>1. d.len < SpaceUntilBoundary(at) /\ SpaceUntilBoundary(at) # PART_SIZE
    BY <1>4, <1>8, <1>9, Sizes
  <2> QED
    BY <1>5, <1>8, <1>9, <2>1, PlaceBefore
<1>11. TypeOK'
  BY <1>5, <1>6, <1>7, <1>10 DEF AlignInv, TypeOK, Placed, finalizeVars
<1>12. Rule(layout', DataEnd') /\ Uncut(layout') /\ MidFile'
  BY <1>5, <1>10 DEF Placed, DataEnd, MidFile
<1>13. SpaceUntilBoundary(pos') >= PADDING_LFH_MIN_SIZE
  BY <1>4, <1>8, <1>10, Sizes, SMT
<1> QED
  BY <1>11, <1>12, <1>13 DEF AlignInv

(***************************************************************************)
(* Finalization: the data ends at central_dir_start and no longer moves.   *)
(***************************************************************************)

\* A directory header has a length.
LEMMA CdfhLenType ==
  ASSUME NEW e \in FileEntries
  PROVE  CdfhLen(e) \in Nat /\ CdfhLen(e) > 0
<1>1. /\ e.name_len \in Nat /\ e.compressed_size \in Nat
      /\ e.uncompressed_size \in Nat /\ e.local_header_offset \in Nat
  BY DEF FileEntries
<1>2. Zip64ExtraLen(e) \in Nat
  BY <1>1, FormatAssumption DEF Zip64ExtraLen
<1> QED
  BY <1>1, <1>2 DEF CdfhLen

\* The directory and the end records are outside the alignment rule.
LEMMA DirectoryStep ==
  ASSUME AlignInv, phase \in {"cd", "done"}, phase' \in {"cd", "done"},
         NEW s \in Structures, s.kind \in {"CDFH", "End"},
         layout' = layout \cup {s}, central_dir_start' = central_dir_start
  PROVE  Rule(layout', DataEnd') /\ Uncut(layout') /\ MidFile'
<1>1. DataEnd = central_dir_start /\ DataEnd' = central_dir_start /\ central_dir_start \in Nat
  BY DEF DataEnd, AlignInv, TypeOK
<1>2. Rule(layout', DataEnd')
  BY <1>1, RuleMonotone DEF AlignInv
<1>3. Uncut(layout')
  BY DEF Uncut, AlignInv
<1> QED
  BY <1>2, <1>3 DEF MidFile

\* write_central_directory, one header.
LEMMA WriteCentralHeaderStep ==
  ASSUME AlignInv, WriteCentralHeader
  PROVE  AlignInv'
<1> DEFINE e == files[next_cdfh]
           s == Structure("CDFH", pos, CdfhLen(e), e.id, 0, 0)
<1>1. /\ phase = "cd" /\ phase' = "cd"
      /\ next_cdfh <= Len(files)
      /\ layout' = layout \cup {s}
      /\ pos' = pos + CdfhLen(e)
      /\ next_cdfh' = next_cdfh + 1
      /\ UNCHANGED <<files, cur, attempts, central_dir_start>>
  BY DEF WriteCentralHeader
<1>2. e \in FileEntries
  BY <1>1 DEF AlignInv, TypeOK
<1>3. CdfhLen(e) \in Nat /\ e.id \in Nat /\ pos \in Nat
  BY <1>2, CdfhLenType DEF FileEntries, AlignInv, TypeOK
<1>4. s \in Structures /\ s.kind \in {"CDFH", "End"}
  <2> HIDE DEF e
  <2> QED
    BY <1>3 DEF Structure, Structures, Kinds
<1> HIDE DEF e, s
<1>5. TypeOK'
  BY <1>1, <1>3, <1>4 DEF AlignInv, TypeOK
<1> QED
  BY <1>1, <1>4, <1>5, DirectoryStep DEF AlignInv

\* The end records.
LEMMA WriteEndRecordsStep ==
  ASSUME AlignInv, WriteEndRecords
  PROVE  AlignInv'
<1> DEFINE size == EOCD64_SIZE + LOCATOR_SIZE + EOCD_SIZE
           s == Structure("End", pos, size, 0, 0, 0)
<1>1. /\ phase = "cd" /\ phase' = "done"
      /\ layout' = layout \cup {s}
      /\ pos' = pos + size
      /\ UNCHANGED <<files, cur, attempts, next_cdfh, central_dir_start>>
  BY DEF WriteEndRecords
<1>2. size \in Nat /\ pos \in Nat
  BY DEF EOCD64_SIZE, LOCATOR_SIZE, EOCD_SIZE, AlignInv, TypeOK
<1> HIDE DEF size
<1>3. s \in Structures /\ s.kind \in {"CDFH", "End"}
  BY <1>2 DEF Structure, Structures, Kinds
<1> HIDE DEF s
<1>4. TypeOK'
  BY <1>1, <1>2, <1>3 DEF AlignInv, TypeOK
<1> QED
  BY <1>1, <1>3, <1>4, DirectoryStep DEF AlignInv

\* Steps that write nothing.
LEMMA QuietStep ==
  ASSUME AlignInv, SkipEntry \/ AbortFile \/ BeginFinalize \/ UNCHANGED vars
  PROVE  AlignInv'
<1>1. CASE SkipEntry
  BY <1>1 DEF SkipEntry, NextEntry, finalizeVars, AlignInv, TypeOK, DataEnd, MidFile
<1>2. CASE AbortFile
  <2>1. NoFile \in OpenFiles
    BY OpenFileType DEF NoFile
  <2> QED
    BY <1>2, <2>1 DEF AbortFile, finalizeVars, AlignInv, TypeOK, DataEnd, MidFile
<1>3. CASE BeginFinalize
  BY <1>3 DEF BeginFinalize, AlignInv, TypeOK, DataEnd, MidFile
<1>4. CASE UNCHANGED vars
  BY <1>4 DEF vars, finalizeVars, AlignInv, TypeOK, DataEnd, MidFile, Rule, Uncut
<1> QED
  BY <1>1, <1>2, <1>3, <1>4

\* The writer starts with an empty archive.
LEMMA AlignInvInit == Init => AlignInv
<1> SUFFICES ASSUME Init PROVE AlignInv
  OBVIOUS
<1>1. NoFile \in OpenFiles
  BY OpenFileType DEF NoFile
<1>2. TypeOK
  BY <1>1 DEF Init, TypeOK
<1>3. Rule(layout, DataEnd)
  <2>1. \A k \in Nat : ~(k * PART_SIZE < 0)
    BY Sizes, SMT
  <2> QED
    BY <2>1 DEF Init, DataEnd, Rule
<1> QED
  BY <1>2, <1>3 DEF Init, AlignInv, Uncut, MidFile

\* Every step of the writer preserves the invariant.
LEMMA AlignInvStep ==
  ASSUME AlignInv, [Next]_vars
  PROVE  AlignInv'
<1>1. ASSUME NEW n \in NameLens, BeginFile(n) PROVE AlignInv'
  BY <1>1, BeginFileStep
<1>2. ASSUME NEW n \in NameLens, NEW kind \in {"empty", "dir"}, AddHeaderOnly(kind, n)
      PROVE  AlignInv'
  BY <1>2, AddHeaderOnlyStep
<1>3. ASSUME NEW n \in NameLens, NEW t \in TargetLens, AddSymlink(n, t) PROVE AlignInv'
  BY <1>3, AddSymlinkStep
<1>4. ASSUME NEW r \in ReadSizes, NEW f \in FrameSizes, WriteFrame(r, f) PROVE AlignInv'
  BY <1>4, WriteFrameStep
<1>5. CASE EndFile
  BY <1>5, EndFileStep
<1>6. CASE SkipEntry \/ AbortFile \/ BeginFinalize \/ UNCHANGED vars
  BY <1>6, QuietStep
<1>7. CASE WriteCentralHeader
  BY <1>7, WriteCentralHeaderStep
<1>8. CASE WriteEndRecords
  BY <1>8, WriteEndRecordsStep
<1> QED
  BY <1>1, <1>2, <1>3, <1>4, <1>5, <1>6, <1>7, <1>8 DEF Next

\* The inductive invariant holds in every state.
LEMMA AlignInvariant == Spec => []AlignInv
<1>1. AlignInv /\ [Next]_vars => AlignInv'
  BY AlignInvStep
<1> QED
  BY <1>1, AlignInvInit, PTL DEF Spec

\* Positions, sizes, structures and directory entries are well formed in
\* every state of the writer (struct burst_writer).
THEOREM TypeCorrect == Spec => []TypeOK
<1>1. AlignInv => TypeOK
  BY DEF AlignInv
<1> QED
  BY <1>1, AlignInvariant, PTL

\* Whatever is archived, however large its frames and wherever they fall,
\* every part boundary below the central directory is the first byte of a
\* local header or a Start-of-Part frame (add_file, add_symlink,
\* add_directory with alignment.c).
THEOREM AlignmentRuleHolds == Spec => []AlignmentRule
<1>1. AlignInv => AlignmentRule
  BY RuleIsAlignmentRule DEF AlignInv
<1> QED
  BY <1>1, AlignInvariant, PTL

\* Nothing the writer places below the central directory straddles a part
\* boundary, the 24-byte ZIP64 data descriptor included.
THEOREM NoStructureCut == Spec => []NoStructureCutByBoundary
<1>1. ASSUME AlignInv, NEW s \in layout, s.kind \notin {"CDFH", "End"}
      PROVE  s.at + s.len <= alignment_next_boundary(s.at)
  <2>1. s.at \in Nat /\ s.len \in Nat /\ s.len <= SpaceUntilBoundary(s.at)
    BY <1>1 DEF AlignInv, TypeOK, Structures, Uncut
  <2>2. /\ alignment_next_boundary(s.at) = s.at + SpaceUntilBoundary(s.at)
        /\ SpaceUntilBoundary(s.at) \in Nat
    BY <2>1, SpaceRange, Sizes
  <2> QED
    BY <2>1, <2>2
<1>2. AlignInv => NoStructureCutByBoundary
  BY <1>1 DEF NoStructureCutByBoundary
<1> QED
  BY <1>2, AlignInvariant, PTL

(***************************************************************************)
(* What the order of the writer's steps gives: room for the next header    *)
(* after every entry, Start-of-Part frames that separate the frames of     *)
(* their file, entries that lead to their data, and a BRST comment that    *)
(* names the first directory header of the tail.                           *)
(***************************************************************************)

(***************************************************************************)
(* The inductive invariant.  RoomForNextHeader is lost by a file that      *)
(* fails half-way, so the header such a file leaves behind has to be       *)
(* recognizable: OpenFileHasHeader.  StartOfPartOffsets compares offsets   *)
(* of frames written at different times, so the offsets of the open file   *)
(* have to stay below what was read: OffsetsReached.                       *)
(***************************************************************************)
Behind == \A s \in layout : s.at < pos /\ s.id <= attempts

EntriesBehind == \A i \in 1..Len(files) : files[i].id <= attempts

OpenFileHasHeader ==
  phase = "file" =>
    /\ \E s \in layout : s.kind = "LFH" /\ s.id = attempts
    /\ \A i \in 1..Len(files) : files[i].id < attempts

OffsetsReached ==
  phase = "file" =>
    \A s \in layout : s.id = attempts /\ s.kind \in {"Frame", "SOP"} =>
      s.uoff + s.ulen <= cur.total_uncompressed

OrderInv ==
  /\ Behind
  /\ EntriesBehind
  /\ OpenFileHasHeader
  /\ OffsetsReached
  /\ RoomForNextHeader
  /\ StartOfPartOffsets

\* Structures without offsets do not touch the Start-of-Part property.
LEMMA NoNewOffsets ==
  ASSUME StartOfPartOffsets,
         \A s \in layout' : s \in layout \/ s.kind \notin {"Frame", "SOP"}
  PROVE  StartOfPartOffsets'
  BY DEF StartOfPartOffsets

\* The ids of the entries, as numbers.
LEMMA EntryIds ==
  ASSUME TypeOK, EntriesBehind
  PROVE  \A i \in 1..Len(files) : files[i].id \in Nat /\ files[i].id <= attempts
<1>1. files \in Seq(FileEntries)
  BY DEF TypeOK
<1>2. \A i \in 1..Len(files) : files[i] \in FileEntries
  BY <1>1
<1> QED
  BY <1>2 DEF EntriesBehind, FileEntries

\* An entry appended for the current call keeps the ids in order.
LEMMA AppendedEntry ==
  ASSUME TypeOK, EntriesBehind, NEW e \in FileEntries, NEW n \in Nat,
         attempts <= n, e.id <= n
  PROVE  \A i \in 1..Len(Append(files, e)) : Append(files, e)[i].id <= n
<1>1. files \in Seq(FileEntries) /\ attempts \in Nat /\ e.id \in Nat
  BY DEF TypeOK, FileEntries
<1> SUFFICES ASSUME NEW i \in 1..Len(Append(files, e))
             PROVE  Append(files, e)[i].id <= n
  OBVIOUS
<1>2. CASE i \in 1..Len(files)
  <2>1. Append(files, e)[i] = files[i] /\ files[i] \in FileEntries
    BY <1>1, <1>2
  <2>2. files[i].id <= attempts /\ files[i].id \in Nat
    BY <1>2, <2>1 DEF EntriesBehind, FileEntries
  <2> QED
    BY <1>1, <2>1, <2>2
<1>3. CASE i = Len(files) + 1
  <2>1. Append(files, e)[i] = e
    BY <1>1, <1>3
  <2> QED
    BY <2>1
<1> QED
  BY <1>1, <1>2, <1>3

\* The padding before an entry only moves the position forward.
LEMMA PaddingMovesForward ==
  ASSUME TypeOK, NEW needed \in Nat
  PROVE  PosAfterPadding(needed) \in Nat /\ pos <= PosAfterPadding(needed)
<1> DEFINE space == SpaceUntilBoundary(pos)
<1>0. pos \in Nat
  BY DEF TypeOK
<1>1. pos \in Nat /\ space \in Nat
  BY <1>0, SpaceRange, Sizes
<1> HIDE DEF space
<1>2. PaddingLfhLen(space) \in Nat
  <2>1. (space - 44) % 65536 \in Nat
    BY <1>1
  <2> QED
    BY <2>1, Sizes DEF PaddingLfhLen
<1> QED
  BY <1>1, <1>2 DEF PosAfterPadding, space

\* The headers of a new entry: where they are and what they are.
LEMMA NewHeaders ==
  ASSUME TypeOK, Behind, NEW needed \in Nat, NEW l \in Nat, l > 0,
         NEW h, h = Structure("LFH", PosAfterPadding(needed), l, attempts + 1, 0, 0),
         NEW s \in layout \cup PaddingLfh(needed) \cup {h}
  PROVE  /\ s.at < PosAfterPadding(needed) + l
         /\ s.id <= attempts + 1
         /\ s \in layout \/ s.kind \notin {"Frame", "SOP"}
<1> DEFINE at == PosAfterPadding(needed)
<1>1. at \in Nat /\ pos \in Nat /\ pos <= at /\ attempts \in Nat
  BY PaddingMovesForward DEF TypeOK
<1>2. CASE s \in layout
  <2>1. s.at < pos /\ s.id <= attempts /\ s.at \in Nat /\ s.id \in Nat
    BY <1>2 DEF Behind, TypeOK, Structures
  <2> HIDE DEF at
  <2> QED
    BY <1>1, <1>2, <2>1 DEF at
<1>3. CASE s \in PaddingLfh(needed)
  <2>1. s = Structure("PadLFH", pos, PaddingLfhLen(SpaceUntilBoundary(pos)), attempts + 1, 0, 0)
    BY <1>3 DEF PaddingLfh
  <2>2. s.at = pos /\ s.id = attempts + 1 /\ s.kind = "PadLFH"
    BY <2>1 DEF Structure
  <2> HIDE DEF at
  <2> QED
    BY <1>1, <2>2 DEF at
<1>4. CASE s = h
  <2>1. s.at = at /\ s.id = attempts + 1 /\ s.kind = "LFH"
    BY <1>4 DEF Structure
  <2> HIDE DEF at
  <2> QED
    BY <1>1, <2>1 DEF at
<1> QED
  BY <1>2, <1>3, <1>4

\* The start of a file: its header is there, none of its frames are.
LEMMA BeginFileOrder ==
  ASSUME AlignInv, OrderInv, NEW n \in NameLens, BeginFile(n)
  PROVE  OrderInv'
<1> DEFINE l == LfhLen(n)
           needed == SpaceNeeded(l, 0, TRUE)
           at == PosAfterPadding(needed)
           h == Structure("LFH", at, l, attempts + 1, 0, 0)
<1>1. l \in Nat /\ l > 0 /\ TypeOK /\ Behind /\ attempts \in Nat
  BY NameFacts DEF AlignInv, TypeOK, OrderInv
<1>2. needed \in Nat
  <2>1. needed = l + 0 + 68
    BY <1>1, SpaceNeededIs, 0 \in Nat, Zenon
  <2> HIDE DEF needed, l
  <2> QED
    BY <1>1, <2>1
<1>3. /\ layout' = layout \cup PaddingLfh(needed) \cup {h}
      /\ pos' = at + l
      /\ phase' = "file"
      /\ attempts' = attempts + 1
      /\ files' = files
  BY DEF BeginFile
<1> HIDE DEF l, needed
<1>4. \A s \in layout' : /\ s.at < pos' /\ s.id <= attempts'
                         /\ s \in layout \/ s.kind \notin {"Frame", "SOP"}
  BY <1>1, <1>2, <1>3, NewHeaders
<1>5. h \in layout' /\ h.kind = "LFH" /\ h.id = attempts'
  BY <1>3 DEF Structure
<1> HIDE DEF at, h
<1>6. \A i \in 1..Len(files') : files'[i].id <= attempts /\ files'[i].id \in Nat
  BY <1>1, <1>3, EntryIds DEF OrderInv
<1>7. Behind' /\ EntriesBehind' /\ OpenFileHasHeader'
  BY <1>1, <1>3, <1>4, <1>5, <1>6 DEF Behind, EntriesBehind, OpenFileHasHeader
<1>8. OffsetsReached'
  <2>1. \A s \in layout' : s.id = attempts' => s.kind \notin {"Frame", "SOP"}
    <3> SUFFICES ASSUME NEW s \in layout', s.id = attempts', s \in layout
                 PROVE  FALSE
      BY <1>4
    <3>1. s.id <= attempts
      BY <1>1 DEF Behind
    <3> QED
      BY <1>1, <1>3, <3>1
  <2> QED
    BY <2>1 DEF OffsetsReached
<1>9. RoomForNextHeader' /\ StartOfPartOffsets'
  BY <1>3, <1>4, NoNewOffsets DEF OrderInv, RoomForNextHeader
<1> QED
  BY <1>7, <1>8, <1>9 DEF OrderInv

\* Entries made of headers alone, and symlinks: nothing with offsets, and
\* room for a header after them.
LEMMA WholeEntryOrder ==
  ASSUME AlignInv, OrderInv, phase' = "adding", attempts' = attempts + 1,
         \A s \in layout' : /\ s.at < pos' /\ s.id <= attempts + 1
                            /\ s \in layout \/ s.kind \notin {"Frame", "SOP"},
         NEW e \in FileEntries, e.id = attempts + 1, files' = Append(files, e),
         SpaceUntilBoundary(pos') >= PADDING_LFH_MIN_SIZE
  PROVE  OrderInv'
<1>1. TypeOK /\ EntriesBehind /\ attempts \in Nat /\ StartOfPartOffsets
  BY DEF AlignInv, TypeOK, OrderInv
<1>2. EntriesBehind'
  BY <1>1, AppendedEntry DEF EntriesBehind
<1>3. StartOfPartOffsets'
  BY <1>1, NoNewOffsets
<1> QED
  BY <1>2, <1>3 DEF OrderInv, Behind, OpenFileHasHeader, OffsetsReached, RoomForNextHeader

\* Directories and empty files.
LEMMA AddHeaderOnlyOrder ==
  ASSUME AlignInv, OrderInv, NEW kind \in {"empty", "dir"}, NEW n \in NameLens,
         AddHeaderOnly(kind, n)
  PROVE  OrderInv'
<1> DEFINE l == LfhLen(n)
           needed == SpaceNeeded(l, 0, kind = "empty")
           at == PosAfterPadding(needed)
           h == Structure("LFH", at, l, attempts + 1, 0, 0)
           e == FileEntry(attempts + 1, kind, n, at, 0, 0)
<1>1. l \in Nat /\ l > 0 /\ TypeOK /\ attempts \in Nat /\ n \in Nat
  BY NameFacts DEF AlignInv, TypeOK
<1>2. needed \in Nat
  <2>1. CASE kind = "empty"
    <3>1. needed = SpaceNeeded(l, 0, TRUE)
      BY <2>1, Zenon DEF SpaceNeeded
    <3>2. needed = l + 0 + 68
      BY <1>1, <3>1, SpaceNeededIs, 0 \in Nat, Zenon
    <3> HIDE DEF needed, l
    <3> QED
      BY <1>1, <3>2
  <2>2. CASE kind # "empty"
    <3>1. needed = SpaceNeeded(l, 0, FALSE)
      BY <2>2, Zenon DEF SpaceNeeded
    <3>2. needed = l + 0 + 44
      BY <1>1, <3>1, SpaceNeededIs, 0 \in Nat, Zenon
    <3> HIDE DEF needed, l
    <3> QED
      BY <1>1, <3>2
  <2> QED
    BY <2>1, <2>2
<1>3. /\ phase = "adding" /\ phase' = "adding"
      /\ layout' = layout \cup PaddingLfh(needed) \cup {h}
      /\ pos' = at + l
      /\ files' = Append(files, e)
      /\ attempts' = attempts + 1
  BY DEF AddHeaderOnly, NextEntry
<1> HIDE DEF l, needed
<1>4. at \in Nat
  BY <1>1, <1>2, PaddingMovesForward
<1>5. e \in FileEntries /\ e.id = attempts + 1
  <2> HIDE DEF at
  <2> QED
    BY <1>1, <1>4, FileEntryType DEF EntryKinds, FileEntry
<1>6. SpaceUntilBoundary(pos') >= PADDING_LFH_MIN_SIZE
  BY AddHeaderOnlyStep
<1>7. \A s \in layout' : /\ s.at < pos' /\ s.id <= attempts + 1
                         /\ s \in layout \/ s.kind \notin {"Frame", "SOP"}
  BY <1>1, <1>2, <1>3, NewHeaders DEF OrderInv
<1> HIDE DEF e
<1> QED
  BY <1>3, <1>5, <1>6, <1>7, WholeEntryOrder

\* Symlinks.
LEMMA AddSymlinkOrder ==
  ASSUME AlignInv, OrderInv, NEW n \in NameLens, NEW t \in TargetLens, AddSymlink(n, t)
  PROVE  OrderInv'
<1> DEFINE l == LfhLen(n)
           needed == SpaceNeeded(l, t, FALSE)
           at == PosAfterPadding(needed)
           h == Structure("LFH", at, l, attempts + 1, 0, 0)
           c == Structure("Content", at + l, t, attempts + 1, 0, t)
           e == FileEntry(attempts + 1, "symlink", n, at, t, t)
<1>1. /\ l \in Nat /\ l > 0 /\ t \in Nat /\ t > 0 /\ n \in Nat
      /\ TypeOK /\ attempts \in Nat
  BY NameFacts DEF AlignInv, TypeOK
<1>2. needed \in Nat
  <2>1. needed = l + t + 44
    BY <1>1, SpaceNeededIs, Zenon
  <2> HIDE DEF needed, l
  <2> QED
    BY <1>1, <2>1
<1>3. /\ phase = "adding" /\ phase' = "adding"
      /\ layout' = layout \cup PaddingLfh(needed) \cup {h, c}
      /\ pos' = at + l + t
      /\ files' = Append(files, e)
      /\ attempts' = attempts + 1
  BY DEF AddSymlink, NextEntry
<1> HIDE DEF l, needed
<1>4. at \in Nat
  BY <1>1, <1>2, PaddingMovesForward
<1>5. e \in FileEntries /\ e.id = attempts + 1
  <2> HIDE DEF at
  <2> QED
    BY <1>1, <1>4, FileEntryType DEF EntryKinds, FileEntry
<1>6. SpaceUntilBoundary(pos') >= PADDING_LFH_MIN_SIZE
  BY AddSymlinkStep
<1>7. \A s \in layout' : /\ s.at < pos' /\ s.id <= attempts + 1
                         /\ s \in layout \/ s.kind \notin {"Frame", "SOP"}
  <2> SUFFICES ASSUME NEW s \in layout'
               PROVE  /\ s.at < pos' /\ s.id <= attempts + 1
                      /\ s \in layout \/ s.kind \notin {"Frame", "SOP"}
    OBVIOUS
  <2>1. CASE s = c
    <3>1. s.at = at + l /\ s.id = attempts + 1 /\ s.kind = "Content"
      BY <2>1 DEF Structure
    <3> HIDE DEF at
    <3> QED
      BY <1>1, <1>3, <1>4, <3>1
  <2>2. CASE s # c
    <3>1. s \in layout \cup PaddingLfh(needed) \cup {h}
      BY <1>3, <2>2
    <3>2. /\ s.at < at + l /\ s.id <= attempts + 1
          /\ s \in layout \/ s.kind \notin {"Frame", "SOP"}
      BY <1>1, <3>1, <1>2, NewHeaders DEF OrderInv
    <3>3. s.at \in Nat
      BY <1>1, <1>4, <3>1 DEF TypeOK, Structures, PaddingLfh, Structure
    <3> HIDE DEF at
    <3> QED
      BY <1>1, <1>3, <1>4, <3>2, <3>3
  <2> QED
    BY <2>1, <2>2
<1> HIDE DEF e
<1> QED
  BY <1>3, <1>5, <1>6, <1>7, WholeEntryOrder

(***************************************************************************)
(* Inside a file: every new frame and Start-of-Part frame lies behind the  *)
(* old ones and starts at or after the offsets reached so far.             *)
(***************************************************************************)

\* A step inside a file that adds the structures N at or after the position,
\* with uncompressed offsets from the total so far on.
LEMMA NewOffsets ==
  ASSUME AlignInv, OrderInv, phase = "file",
         NEW N, layout' = layout \cup N,
         \A s \in N : /\ s.at \in Nat /\ s.uoff \in Nat /\ s.ulen \in Nat
                      /\ s.id = attempts
                      /\ pos <= s.at
                      /\ s.kind \in {"Frame", "SOP"} => cur.total_uncompressed <= s.uoff,
         \A s, f \in N : s.kind = "SOP" /\ f.kind = "Frame" =>
           /\ f.at < s.at => f.uoff + f.ulen <= s.uoff
           /\ s.at < f.at => s.uoff <= f.uoff
  PROVE  StartOfPartOffsets'
<1>1. /\ pos \in Nat /\ cur.total_uncompressed \in Nat
      /\ \A s \in layout : s.at \in Nat /\ s.uoff \in Nat /\ s.ulen \in Nat
  BY DEF AlignInv, TypeOK, OpenFiles, Structures
<1>2. \A s \in layout : s.at < pos
  BY DEF OrderInv, Behind
<1>3. \A s \in layout : s.id = attempts /\ s.kind \in {"Frame", "SOP"} =>
        s.uoff + s.ulen <= cur.total_uncompressed
  BY DEF OrderInv, OffsetsReached
<1> SUFFICES ASSUME NEW s \in layout', NEW f \in layout',
                    s.kind = "SOP", f.kind = "Frame", f.id = s.id
             PROVE  /\ f.at < s.at => f.uoff + f.ulen <= s.uoff
                    /\ s.at < f.at => s.uoff <= f.uoff
  BY DEF StartOfPartOffsets
<1>4. CASE s \in layout /\ f \in layout
  BY <1>4 DEF OrderInv, StartOfPartOffsets
<1>5. CASE s \in N /\ f \in N
  BY <1>5
<1>6. CASE s \in layout /\ f \in N
  <2>1. /\ s.uoff + s.ulen <= cur.total_uncompressed
        /\ cur.total_uncompressed <= f.uoff
        /\ s.at < pos /\ pos <= f.at
        /\ f.at \in Nat /\ f.uoff \in Nat
    BY <1>2, <1>3, <1>6
  <2> QED
    BY <1>1, <1>6, <2>1
<1>7. CASE s \in N /\ f \in layout
  <2>1. /\ f.uoff + f.ulen <= cur.total_uncompressed
        /\ cur.total_uncompressed <= s.uoff
        /\ f.at < pos /\ pos <= s.at
        /\ s.at \in Nat /\ s.uoff \in Nat
    BY <1>2, <1>3, <1>7
  <2> QED
    BY <1>1, <1>7, <2>1
<1> QED
  BY <1>4, <1>5, <1>6, <1>7

\* The structures N of one iteration of the read loop that read r bytes:
\* where they are, the offsets they carry, and the frame among them.
Iteration(N, r) ==
  /\ \A s \in N : /\ s.at \in Nat /\ s.uoff \in Nat /\ s.ulen \in Nat
                  /\ s.id = attempts
                  /\ pos <= s.at /\ s.at < pos'
                  /\ s.kind \in {"Frame", "SOP"} =>
                       /\ cur.total_uncompressed <= s.uoff
                       /\ s.uoff + s.ulen <= cur.total_uncompressed + r
                  /\ s.kind = "Frame" => s.at + s.len <= pos'
  /\ \A s, t \in N : s.kind = "SOP" /\ t.kind = "Frame" =>
       /\ t.at < s.at => t.uoff + t.ulen <= s.uoff
       /\ s.at < t.at => s.uoff <= t.uoff
  /\ \E s \in N : s.kind = "Frame" /\ s.uoff + s.ulen = cur.total_uncompressed + r

\* One iteration of the read loop adds such structures.
LEMMA FrameStructures ==
  ASSUME AlignInv, NEW r \in ReadSizes, NEW f \in FrameSizes, WriteFrame(r, f)
  PROVE  \E N : layout' = layout \cup N /\ Iteration(N, r)
<1> DEFINE action == alignment_decide(pos, f, r < ZSTD_CHUNK_SIZE)
           done == cur.total_uncompressed
           pad == PaddingFrame(pos, attempts)
           next == pos + pad.len
           FrameAt(at) == Structure("Frame", at, f, attempts, done, r)
<1>1. f \in Nat /\ f > 0 /\ r \in Nat
  BY FrameFacts
<1>2. pos \in Nat /\ attempts \in Nat /\ done \in Nat /\ SpaceUntilBoundary(pos) >= 8
  BY Sizes DEF WriteFrame, AlignInv, TypeOK, OpenFiles, MidFile
<1>3. /\ pad.at = pos /\ pad.kind = "Pad" /\ pad.id = attempts /\ pad.len \in Nat
      /\ pad.uoff \in Nat /\ pad.ulen \in Nat
  BY <1>2, PaddingFills DEF Structures
<1>4. UncompressedBefore(done + r, r) = done
  <2> HIDE DEF done
  <2> QED
    BY <1>1, <1>2 DEF UncompressedBefore
<1>5. \A at : /\ FrameAt(at).kind = "Frame" /\ FrameAt(at).at = at /\ FrameAt(at).id = attempts
             /\ FrameAt(at).uoff = done /\ FrameAt(at).ulen = r /\ FrameAt(at).len = f
  BY DEF Structure
<1>6. \A at, u : /\ StartOfPart(at, attempts, u).kind = "SOP"
                /\ StartOfPart(at, attempts, u).at = at
                /\ StartOfPart(at, attempts, u).id = attempts
                /\ StartOfPart(at, attempts, u).uoff = u
                /\ StartOfPart(at, attempts, u).ulen = 0
  BY DEF StartOfPart, Structure
<1>7. \/ /\ layout' = layout \cup {FrameAt(pos)}
         /\ pos' = pos + f
      \/ /\ layout' = layout \cup {FrameAt(pos), StartOfPart(pos + f, attempts, done + r)}
         /\ pos' = pos + f + 24
      \/ /\ layout' = layout \cup {pad, StartOfPart(next, attempts, done), FrameAt(next + 24)}
         /\ pos' = next + 24 + f
  BY <1>4, Sizes DEF WriteFrame
<1> HIDE DEF pad, FrameAt, done
<1>8. CASE layout' = layout \cup {FrameAt(pos)} /\ pos' = pos + f
  <2>1. Iteration({FrameAt(pos)}, r)
    BY <1>1, <1>2, <1>5, <1>8 DEF Iteration, done
  <2> QED
    BY <1>8, <2>1
<1>9. CASE /\ layout' = layout \cup {FrameAt(pos), StartOfPart(pos + f, attempts, done + r)}
           /\ pos' = pos + f + 24
  <2> DEFINE F == FrameAt(pos)
             S == StartOfPart(pos + f, attempts, done + r)
  <2>1. /\ F.kind = "Frame" /\ F.at = pos /\ F.id = attempts /\ F.uoff = done /\ F.ulen = r
        /\ F.len = f
        /\ S.kind = "SOP" /\ S.at = pos + f /\ S.id = attempts
        /\ S.uoff = done + r /\ S.ulen = 0
    BY <1>5, <1>6
  <2> HIDE DEF F, S
  <2>2. Iteration({F, S}, r)
    BY <1>1, <1>2, <1>9, <2>1 DEF Iteration, done
  <2>3. layout' = layout \cup {F, S}
    BY <1>9 DEF F, S
  <2> QED
    BY <2>2, <2>3
<1>10. CASE /\ layout' = layout \cup {pad, StartOfPart(next, attempts, done), FrameAt(next + 24)}
            /\ pos' = next + 24 + f
  <2> DEFINE F == FrameAt(next + 24)
             S == StartOfPart(next, attempts, done)
  <2>1. /\ F.kind = "Frame" /\ F.at = next + 24 /\ F.id = attempts /\ F.uoff = done /\ F.ulen = r
        /\ F.len = f
        /\ S.kind = "SOP" /\ S.at = next /\ S.id = attempts
        /\ S.uoff = done /\ S.ulen = 0
    BY <1>5, <1>6
  <2>2. next \in Nat /\ pos <= next
    BY <1>2, <1>3
  <2> HIDE DEF F, S, next
  <2>3. Iteration({pad, S, F}, r)
    BY <1>1, <1>2, <1>3, <1>10, <2>1, <2>2 DEF Iteration, done
  <2>4. layout' = layout \cup {pad, S, F}
    BY <1>10 DEF F, S
  <2> QED
    BY <2>3, <2>4
<1> QED
  BY <1>7, <1>8, <1>9, <1>10

\* One iteration of the read loop.
LEMMA WriteFrameOrder ==
  ASSUME AlignInv, OrderInv, NEW r \in ReadSizes, NEW f \in FrameSizes, WriteFrame(r, f)
  PROVE  OrderInv'
<1> DEFINE done == cur.total_uncompressed
<1>1. /\ phase = "file" /\ phase' = "file"
      /\ files' = files /\ attempts' = attempts
      /\ cur' = [cur EXCEPT !.total_uncompressed = done + r,
                            !.bytes_read = r, !.frames = @ + 1]
  BY DEF WriteFrame
<1>2. cur \in OpenFiles /\ r \in Nat /\ pos \in Nat /\ attempts \in Nat /\ done \in Nat
  BY FrameFacts DEF AlignInv, TypeOK, OpenFiles
<1>3. cur'.total_uncompressed = done + r
  BY <1>1, <1>2 DEF OpenFiles
<1>4. PICK N : layout' = layout \cup N /\ Iteration(N, r)
  BY FrameStructures
<1>5. StartOfPartOffsets'
  BY <1>1, <1>4, NewOffsets DEF Iteration
<1>6. pos <= pos' /\ pos' \in Nat
  BY WriteFrameStep
<1>7. Behind'
  <2> SUFFICES ASSUME NEW s \in layout' PROVE s.at < pos' /\ s.id <= attempts
    BY <1>1 DEF Behind
  <2>1. CASE s \in N
    BY <1>2, <1>4, <2>1 DEF Iteration
  <2>2. CASE s \in layout
    <3>1. s.at < pos /\ s.at \in Nat /\ s.id <= attempts
      BY <2>2 DEF OrderInv, Behind, AlignInv, TypeOK, Structures
    <3> QED
      BY <1>2, <1>6, <3>1
  <2> QED
    BY <1>4, <2>1, <2>2
<1>8. OffsetsReached'
  <2> SUFFICES ASSUME NEW s \in layout', s.id = attempts, s.kind \in {"Frame", "SOP"}
               PROVE  s.uoff + s.ulen <= done + r
    BY <1>1, <1>3 DEF OffsetsReached
  <2>1. CASE s \in N
    BY <1>4, <2>1 DEF Iteration, done
  <2>2. CASE s \in layout
    <3>1. s.uoff + s.ulen <= done /\ s.uoff \in Nat /\ s.ulen \in Nat
      BY <1>1, <2>2 DEF OrderInv, OffsetsReached, AlignInv, TypeOK, Structures
    <3> HIDE DEF done
    <3> QED
      BY <1>2, <3>1
  <2> QED
    BY <1>4, <2>1, <2>2
<1>9. OpenFileHasHeader' /\ EntriesBehind' /\ RoomForNextHeader'
  BY <1>1, <1>4 DEF OrderInv, OpenFileHasHeader, EntriesBehind, RoomForNextHeader
<1> QED
  BY <1>5, <1>7, <1>8, <1>9 DEF OrderInv

\* The end of a file: trailing padding, a Start-of-Part frame and the
\* descriptor, and an entry with the id of this call.
LEMMA EndFileOrder ==
  ASSUME AlignInv, OrderInv, EndFile
  PROVE  OrderInv'
<1> DEFINE csize == pos - cur.compressed_start_offset
           usize == cur.total_uncompressed
           dsize == DescriptorSize(csize, usize)
           pads == NeedsTrailingPadding(SpaceUntilBoundary(pos), dsize)
           pad == PaddingFrame(pos, attempts)
           at == IF pads THEN pos + pad.len + START_OF_PART_SIZE ELSE pos
           S == StartOfPart(pos + pad.len, attempts, usize)
           D == Structure("DD", at, dsize, attempts, 0, 0)
           e == FileEntry(attempts, "file", cur.name_len, cur.local_header_offset, csize, usize)
           N == (IF pads THEN {pad, S} ELSE {}) \cup {D}
<1>1. /\ phase = "file" /\ phase' = "adding" /\ attempts' = attempts
      /\ layout' = layout \cup N
      /\ pos' = at + dsize
      /\ files' = Append(files, e)
  BY DEF EndFile
<1>2. /\ pos \in Nat /\ attempts \in Nat /\ usize \in Nat /\ TypeOK /\ EntriesBehind
      /\ cur.name_len \in Nat /\ cur.local_header_offset \in Nat /\ csize \in Nat
      /\ SpaceUntilBoundary(pos) >= 8
  BY <1>1, Sizes DEF AlignInv, TypeOK, OpenFiles, MidFile, OrderInv
<1>3. e \in FileEntries /\ e.id = attempts
  <2> HIDE DEF csize, usize
  <2> QED
    BY <1>2, FileEntryType DEF EntryKinds, FileEntry
<1>4. dsize \in Nat /\ dsize > 0
  BY Sizes DEF DescriptorSize
<1>5. /\ pad.at = pos /\ pad.kind = "Pad" /\ pad.id = attempts /\ pad.len \in Nat
      /\ pad.uoff \in Nat /\ pad.ulen \in Nat
  BY <1>2, PaddingFills DEF Structures
<1>6. SpaceUntilBoundary(pos') >= PADDING_LFH_MIN_SIZE
  BY EndFileStep
<1>7. /\ S.kind = "SOP" /\ S.at = pos + pad.len /\ S.id = attempts
      /\ S.uoff = usize /\ S.ulen = 0
  BY DEF StartOfPart, Structure
<1>8. D.kind = "DD" /\ D.at = at /\ D.id = attempts /\ D.uoff = 0 /\ D.ulen = 0
  BY DEF Structure
<1> HIDE DEF e, S, D, pad, dsize, usize, csize, pads
<1>9. at \in Nat /\ pos <= at /\ (pads => at = pos + pad.len + 24)
  BY <1>2, <1>5, Sizes
<1> HIDE DEF at
<1>10. \A s \in N : /\ s.at \in Nat /\ s.uoff \in Nat /\ s.ulen \in Nat
                    /\ s.id = attempts
                    /\ pos <= s.at /\ s.at < pos'
                    /\ s.kind \in {"Frame", "SOP"} => usize <= s.uoff
                    /\ s.kind # "Frame"
  <2> SUFFICES ASSUME NEW s \in N
               PROVE  /\ s.at \in Nat /\ s.uoff \in Nat /\ s.ulen \in Nat
                      /\ s.id = attempts
                      /\ pos <= s.at /\ s.at < pos'
                      /\ s.kind \in {"Frame", "SOP"} => usize <= s.uoff
                      /\ s.kind # "Frame"
    OBVIOUS
  <2>0. at < pos' /\ pos' \in Nat
    BY <1>1, <1>4, <1>9
  <2>1. CASE s = D
    BY <1>2, <1>8, <1>9, <2>0, <2>1
  <2>2. CASE pads /\ s = pad
    <3>1. pos < pos'
      BY <1>2, <1>5, <1>9, <2>0, <2>2
    <3> QED
      BY <1>2, <1>5, <2>2, <3>1
  <2>3. CASE pads /\ s = S
    <3>1. S.at < pos' /\ pos <= S.at /\ S.at \in Nat
      BY <1>2, <1>5, <1>7, <1>9, <2>0, <2>3
    <3> QED
      BY <1>2, <1>7, <2>3, <3>1
  <2> QED
    BY <2>1, <2>2, <2>3, Zenon
<1> HIDE DEF N
<1>11. StartOfPartOffsets'
  BY <1>1, <1>10, NewOffsets DEF usize
<1>12. pos <= pos' /\ pos' \in Nat
  BY <1>1, <1>2, <1>4, <1>9
<1>13. Behind'
  <2> SUFFICES ASSUME NEW s \in layout' PROVE s.at < pos' /\ s.id <= attempts
    BY <1>1 DEF Behind
  <2>1. CASE s \in N
    BY <1>2, <1>10, <2>1
  <2>2. CASE s \in layout
    <3>1. s.at < pos /\ s.at \in Nat /\ s.id <= attempts
      BY <2>2 DEF OrderInv, Behind, AlignInv, TypeOK, Structures
    <3> QED
      BY <1>2, <1>12, <3>1
  <2> QED
    BY <1>1, <2>1, <2>2
<1>14. EntriesBehind'
  BY <1>1, <1>2, <1>3, AppendedEntry DEF EntriesBehind
<1>15. OpenFileHasHeader' /\ OffsetsReached' /\ RoomForNextHeader'
  BY <1>1, <1>6 DEF OpenFileHasHeader, OffsetsReached, RoomForNextHeader
<1> QED
  BY <1>11, <1>13, <1>14, <1>15 DEF OrderInv

(***************************************************************************)
(* Steps outside a file's data.                                            *)
(***************************************************************************)

\* An entry that is skipped, and a file that fails: the failed file leaves a
\* header without a directory entry.
LEMMA QuietOrder ==
  ASSUME AlignInv, OrderInv, SkipEntry \/ AbortFile \/ BeginFinalize \/ UNCHANGED vars
  PROVE  OrderInv'
<1>1. attempts \in Nat /\ TypeOK
  BY DEF AlignInv, TypeOK
<1>2. CASE SkipEntry
  <2>1. /\ phase = "adding" /\ phase' = "adding" /\ attempts' = attempts + 1
        /\ layout' = layout /\ files' = files /\ pos' = pos
    BY <1>2 DEF SkipEntry, NextEntry
  <2>2. Behind'
    <3>1. \A s \in layout : s.id \in Nat
      BY DEF AlignInv, TypeOK, Structures
    <3> QED
      BY <1>1, <2>1, <3>1 DEF OrderInv, Behind
  <2>3. EntriesBehind'
    BY <1>1, <2>1, EntryIds DEF OrderInv, EntriesBehind
  <2>4. OpenFileHasHeader' /\ OffsetsReached'
    BY <2>1 DEF OpenFileHasHeader, OffsetsReached
  <2>5. RoomForNextHeader'
    BY <2>1 DEF OrderInv, RoomForNextHeader, SomeFileAborted, Recorded
  <2>6. StartOfPartOffsets'
    BY <2>1 DEF OrderInv, StartOfPartOffsets
  <2> QED
    BY <2>2, <2>3, <2>4, <2>5, <2>6 DEF OrderInv
<1>3. CASE AbortFile
  <2>1. /\ phase = "file" /\ phase' = "adding" /\ attempts' = attempts
        /\ layout' = layout /\ files' = files /\ pos' = pos
    BY <1>3 DEF AbortFile
  <2>2. Behind' /\ EntriesBehind' /\ StartOfPartOffsets'
    BY <2>1 DEF OrderInv, Behind, EntriesBehind, StartOfPartOffsets
  <2>3. OpenFileHasHeader' /\ OffsetsReached'
    BY <2>1 DEF OpenFileHasHeader, OffsetsReached
  <2>4. \A i \in 1..Len(files) : files[i].id # attempts
    BY <1>1, <2>1, EntryIds DEF OrderInv, OpenFileHasHeader
  <2>5. SomeFileAborted'
    <3>1. PICK s \in layout : s.kind = "LFH" /\ s.id = attempts
      BY <2>1 DEF OrderInv, OpenFileHasHeader
    <3> QED
      BY <2>1, <2>4, <3>1 DEF SomeFileAborted, Recorded
  <2>6. RoomForNextHeader'
    BY <2>5 DEF RoomForNextHeader
  <2> QED
    BY <2>2, <2>3, <2>6 DEF OrderInv
<1>4. CASE BeginFinalize
  <2>1. /\ phase' \in {"cd", "failed"} /\ attempts' = attempts
        /\ layout' = layout /\ files' = files /\ pos' = pos
    BY <1>4 DEF BeginFinalize
  <2>2. Behind' /\ EntriesBehind' /\ StartOfPartOffsets'
    BY <2>1 DEF OrderInv, Behind, EntriesBehind, StartOfPartOffsets
  <2>3. OpenFileHasHeader' /\ OffsetsReached' /\ RoomForNextHeader'
    BY <2>1 DEF OpenFileHasHeader, OffsetsReached, RoomForNextHeader
  <2> QED
    BY <2>2, <2>3 DEF OrderInv
<1>5. CASE UNCHANGED vars
  BY <1>5 DEF vars, OrderInv, Behind, EntriesBehind, OpenFileHasHeader, OffsetsReached,
              RoomForNextHeader, SomeFileAborted, Recorded, StartOfPartOffsets
<1> QED
  BY <1>2, <1>3, <1>4, <1>5

\* The central directory and the end records lie behind everything else.
LEMMA DirectoryOrder ==
  ASSUME AlignInv, OrderInv, phase = "cd", phase' \in {"cd", "done"},
         NEW s \in Structures, s.kind \in {"CDFH", "End"},
         s.at = pos, s.len > 0, s.id <= attempts,
         layout' = layout \cup {s}, pos' = pos + s.len,
         files' = files, attempts' = attempts
  PROVE  OrderInv'
<1>1. pos \in Nat /\ attempts \in Nat /\ s.len \in Nat /\ pos < pos' /\ pos' \in Nat
  BY DEF AlignInv, TypeOK, Structures
<1>2. Behind'
  <2> SUFFICES ASSUME NEW t \in layout' PROVE t.at < pos' /\ t.id <= attempts
    BY DEF Behind
  <2>1. CASE t \in layout
    <3>1. t.at < pos /\ t.at \in Nat /\ t.id <= attempts
      BY <2>1 DEF OrderInv, Behind, AlignInv, TypeOK, Structures
    <3> QED
      BY <1>1, <3>1
  <2>2. CASE t = s
    BY <1>1, <2>2
  <2> QED
    BY <2>1, <2>2
<1>3. EntriesBehind' /\ OpenFileHasHeader' /\ OffsetsReached' /\ RoomForNextHeader'
  BY DEF OrderInv, EntriesBehind, OpenFileHasHeader, OffsetsReached, RoomForNextHeader
<1>4. StartOfPartOffsets'
  BY NoNewOffsets DEF OrderInv
<1> QED
  BY <1>2, <1>3, <1>4 DEF OrderInv

\* One central directory header.
LEMMA WriteCentralHeaderOrder ==
  ASSUME AlignInv, OrderInv, WriteCentralHeader
  PROVE  OrderInv'
<1> DEFINE e == files[next_cdfh]
           s == Structure("CDFH", pos, CdfhLen(e), e.id, 0, 0)
<1>1. /\ phase = "cd" /\ phase' = "cd" /\ next_cdfh <= Len(files)
      /\ layout' = layout \cup {s}
      /\ pos' = pos + CdfhLen(e)
      /\ files' = files /\ attempts' = attempts
  BY DEF WriteCentralHeader
<1>2. pos \in Nat /\ TypeOK /\ next_cdfh \in 1..Len(files)
  BY <1>1 DEF AlignInv, TypeOK
<1>3. e \in FileEntries
  BY <1>2 DEF TypeOK
<1>4. CdfhLen(e) \in Nat /\ CdfhLen(e) > 0
  BY <1>3, CdfhLenType
<1>5. e.id \in Nat /\ e.id <= attempts
  BY <1>2, EntryIds DEF OrderInv
<1>6. /\ s \in Structures /\ s.kind = "CDFH" /\ s.at = pos
      /\ s.len = CdfhLen(e) /\ s.id = e.id
  BY <1>2, <1>4, <1>5 DEF Structure, Structures, Kinds
<1> HIDE DEF e, s
<1> QED
  BY <1>1, <1>4, <1>5, <1>6, DirectoryOrder

\* The end records.
LEMMA WriteEndRecordsOrder ==
  ASSUME AlignInv, OrderInv, WriteEndRecords
  PROVE  OrderInv'
<1> DEFINE size == EOCD64_SIZE + LOCATOR_SIZE + EOCD_SIZE
           s == Structure("End", pos, size, 0, 0, 0)
<1>1. /\ phase = "cd" /\ phase' = "done"
      /\ layout' = layout \cup {s}
      /\ pos' = pos + size
      /\ files' = files /\ attempts' = attempts
  BY DEF WriteEndRecords
<1>2. size \in Nat /\ size > 0 /\ pos \in Nat /\ 0 <= attempts
  BY DEF EOCD64_SIZE, LOCATOR_SIZE, EOCD_SIZE, AlignInv, TypeOK
<1> HIDE DEF size
<1>3. /\ s \in Structures /\ s.kind = "End" /\ s.at = pos /\ s.len = size /\ s.id = 0
  BY <1>2 DEF Structure, Structures, Kinds
<1> HIDE DEF s
<1> QED
  BY <1>1, <1>2, <1>3, DirectoryOrder

(***************************************************************************)
(* The theorems.                                                           *)
(***************************************************************************)

\* Nothing is written yet, and the whole first part is free.
LEMMA OrderInvInit == Init => OrderInv
<1> SUFFICES ASSUME Init PROVE OrderInv
  OBVIOUS
<1>1. pos = 0 /\ layout = {} /\ files = <<>> /\ phase = "adding"
  BY DEF Init
<1>2. SpaceUntilBoundary(0) >= PADDING_LFH_MIN_SIZE
  <2>1. SpaceUntilBoundary(0 * PART_SIZE + 0) = PART_SIZE
    BY QuotientUnique, Sizes DEF SpaceUntilBoundary, alignment_next_boundary
  <2>2. 0 * PART_SIZE + 0 = 0
    BY Sizes
  <2> QED
    BY <2>1, <2>2, Sizes, PartIsLarge
<1> QED
  BY <1>1, <1>2 DEF OrderInv, Behind, EntriesBehind, OpenFileHasHeader, OffsetsReached,
                    RoomForNextHeader, StartOfPartOffsets

\* Every step of the writer preserves the order.
LEMMA OrderInvStep ==
  ASSUME AlignInv, OrderInv, [Next]_vars
  PROVE  OrderInv'
<1>1. ASSUME NEW n \in NameLens, BeginFile(n) PROVE OrderInv'
  BY <1>1, BeginFileOrder
<1>2. ASSUME NEW n \in NameLens, NEW kind \in {"empty", "dir"}, AddHeaderOnly(kind, n)
      PROVE  OrderInv'
  BY <1>2, AddHeaderOnlyOrder
<1>3. ASSUME NEW n \in NameLens, NEW t \in TargetLens, AddSymlink(n, t) PROVE OrderInv'
  BY <1>3, AddSymlinkOrder
<1>4. ASSUME NEW r \in ReadSizes, NEW f \in FrameSizes, WriteFrame(r, f) PROVE OrderInv'
  BY <1>4, WriteFrameOrder
<1>5. CASE EndFile
  BY <1>5, EndFileOrder
<1>6. CASE SkipEntry \/ AbortFile \/ BeginFinalize \/ UNCHANGED vars
  BY <1>6, QuietOrder
<1>7. CASE WriteCentralHeader
  BY <1>7, WriteCentralHeaderOrder
<1>8. CASE WriteEndRecords
  BY <1>8, WriteEndRecordsOrder
<1> QED
  BY <1>1, <1>2, <1>3, <1>4, <1>5, <1>6, <1>7, <1>8 DEF Next

\* Alignment and order together hold in every state.
LEMMA OrderInvariant == Spec => []OrderInv
<1>1. AlignInv /\ OrderInv /\ [Next]_vars => OrderInv'
  BY OrderInvStep
<1> QED
  BY <1>1, AlignInvariant, OrderInvInit, PTL DEF Spec

\* As long as no file failed half-way, every entry leaves room for a minimal
\* local header before the boundary, so write_padding_lfh never refuses the
\* gap it is asked to fill (the trailing padding of burst_writer_add_file
\* and the reserve of check_alignment_and_pad).
THEOREM RoomForNextHeaderHolds == Spec => []RoomForNextHeader
<1>1. OrderInv => RoomForNextHeader
  BY DEF OrderInv
<1> QED
  BY <1>1, OrderInvariant, PTL

\* The uncompressed offset in every Start-of-Part frame, whichever of the
\* three places of burst_writer_add_file wrote it, separates the frames of
\* its file that lie before it from those that lie after it.
THEOREM StartOfPartOffsetsHold == Spec => []StartOfPartOffsets
<1>1. OrderInv => StartOfPartOffsets
  BY DEF OrderInv
<1> QED
  BY <1>1, OrderInvariant, PTL

(***************************************************************************)
(* Entries lead to their data.  The entry of a file is built from what     *)
(* add_file remembered when it wrote the header, so the open file has to   *)
(* be located already: its header where local_header_offset says, its      *)
(* frames between compressed_start_offset and the position, and the last   *)
(* of them ending at the total read so far.                                *)
(***************************************************************************)
FramesOf(L, id) == {s \in L : s.kind = "Frame" /\ s.id = id}

HeaderAt(L, id, at, end) ==
  \E s \in L : s.kind = "LFH" /\ s.id = id /\ s.at = at /\ s.at + s.len = end

\* EntriesLocateData for one entry.
Located(e, L) ==
  LET data == e.local_header_offset + LfhLen(e.name_len)
  IN /\ HeaderAt(L, e.id, e.local_header_offset, data)
     /\ \A f \in FramesOf(L, e.id) : /\ data <= f.at
                                     /\ f.at + f.len <= data + e.compressed_size
                                     /\ f.uoff + f.ulen <= e.uncompressed_size
     /\ e.kind = "file" /\ e.uncompressed_size > 0 =>
          \E f \in FramesOf(L, e.id) : f.uoff + f.ulen = e.uncompressed_size

OpenFileLocated ==
  phase = "file" =>
    LET data == cur.compressed_start_offset
    IN /\ data = cur.local_header_offset + LfhLen(cur.name_len)
       /\ HeaderAt(layout, attempts, cur.local_header_offset, data)
       /\ \A f \in FramesOf(layout, attempts) : data <= f.at /\ f.at + f.len <= pos
       /\ cur.total_uncompressed > 0 =>
            \E f \in FramesOf(layout, attempts) : f.uoff + f.ulen = cur.total_uncompressed

LocateInv == EntriesLocateData /\ OpenFileLocated

\* The property, entry by entry.
LEMMA EntryByEntry ==
  EntriesLocateData <=> \A i \in 1..Len(files) : Located(files[i], layout)
  BY Zenon DEF EntriesLocateData, Located, FramesOf, HeaderAt

LEMMA EntryByEntryNext ==
  EntriesLocateData' <=> \A i \in 1..Len(files') : Located(files'[i], layout')
  BY Zenon DEF EntriesLocateData, Located, FramesOf, HeaderAt

\* What is written later does not touch an entry, unless it is a frame with
\* the entry's id.
LEMMA StillLocated ==
  ASSUME NEW e, NEW L, NEW M, Located(e, L), L \subseteq M,
         \A s \in M : s \in L \/ s.kind # "Frame" \/ s.id # e.id
  PROVE  Located(e, M)
<1>1. FramesOf(M, e.id) = FramesOf(L, e.id)
  BY DEF FramesOf
<1>2. HeaderAt(M, e.id, e.local_header_offset, e.local_header_offset + LfhLen(e.name_len))
  BY Zenon DEF Located, HeaderAt
<1> QED
  BY <1>1, <1>2, Zenon DEF Located

\* A step that leaves the directory alone keeps its entries located.
LEMMA SameEntries ==
  ASSUME EntriesLocateData, layout \subseteq layout', files' = files,
         \A s \in layout' : \/ s \in layout
                            \/ s.kind # "Frame"
                            \/ \A i \in 1..Len(files) : files[i].id # s.id
  PROVE  EntriesLocateData'
<1> SUFFICES ASSUME NEW i \in 1..Len(files)
             PROVE  Located(files[i], layout')
  BY EntryByEntryNext
<1>1. Located(files[i], layout)
  BY EntryByEntry
<1> QED
  BY <1>1, StillLocated

\* A step that appends an entry, which is located.
LEMMA OneMoreEntry ==
  ASSUME TypeOK, EntriesLocateData, layout \subseteq layout',
         \A s \in layout' : s \in layout \/ s.kind # "Frame",
         NEW e \in FileEntries, files' = Append(files, e), Located(e, layout')
  PROVE  EntriesLocateData'
<1>1. files \in Seq(FileEntries)
  BY DEF TypeOK
<1> SUFFICES ASSUME NEW i \in 1..Len(Append(files, e))
             PROVE  Located(Append(files, e)[i], layout')
  BY EntryByEntryNext
<1>2. CASE i \in 1..Len(files)
  <2>1. Append(files, e)[i] = files[i]
    BY <1>1, <1>2
  <2>2. Located(files[i], layout)
    BY <1>2, EntryByEntry
  <2> QED
    BY <2>1, <2>2, StillLocated
<1>3. CASE i = Len(files) + 1
  <2>1. Append(files, e)[i] = e
    BY <1>1, <1>3
  <2> QED
    BY <2>1
<1> QED
  BY <1>1, <1>2, <1>3

\* The call under way has no frames before its header.
LEMMA NoFramesYet ==
  ASSUME TypeOK, Behind,
         \A s \in layout' : s \in layout \/ s.kind \notin {"Frame", "SOP"}
  PROVE  FramesOf(layout', attempts + 1) = {}
<1> SUFFICES ASSUME NEW s \in layout, s.id = attempts + 1
             PROVE  FALSE
  BY DEF FramesOf
<1>1. s.id <= attempts /\ attempts \in Nat
  BY DEF Behind, TypeOK
<1> QED
  BY <1>1

\* An entry without frames: its header is all there is to find.
LEMMA HeaderLocates ==
  ASSUME TypeOK, Behind, NEW n \in Nat, NEW at \in Nat, LfhLen(n) \in Nat,
         \A s \in layout' : s \in layout \/ s.kind \notin {"Frame", "SOP"},
         NEW h \in layout', h = Structure("LFH", at, LfhLen(n), attempts + 1, 0, 0),
         NEW kind, kind # "file", NEW csize, NEW usize
  PROVE  Located(FileEntry(attempts + 1, kind, n, at, csize, usize), layout')
<1> DEFINE e == FileEntry(attempts + 1, kind, n, at, csize, usize)
<1>1. e.id = attempts + 1 /\ e.kind = kind /\ e.name_len = n /\ e.local_header_offset = at
  BY DEF FileEntry
<1>2. FramesOf(layout', e.id) = {}
  BY <1>1, NoFramesYet
<1>3. h.kind = "LFH" /\ h.id = attempts + 1 /\ h.at = at /\ h.len = LfhLen(n)
  BY DEF Structure
<1>4. HeaderAt(layout', e.id, e.local_header_offset, e.local_header_offset + LfhLen(e.name_len))
  BY <1>1, <1>3 DEF HeaderAt
<1> HIDE DEF e
<1>5. Located(e, layout')
  BY <1>1, <1>2, <1>4 DEF Located
<1> QED
  BY <1>5 DEF e

\* Padding before an entry and the headers of an entry are no frames.
LEMMA PaddingIsNoFrame ==
  ASSUME NEW needed, NEW s \in PaddingLfh(needed)
  PROVE  s.kind = "PadLFH"
  BY DEF PaddingLfh, Structure

\* The room asked for before an entry is a number.
LEMMA NeededIsNat ==
  ASSUME NEW l \in Nat, NEW c \in Nat, NEW dd \in BOOLEAN
  PROVE  SpaceNeeded(l, c, dd) \in Nat
  BY Sizes DEF SpaceNeeded

LEMMA BeginFileLocates ==
  ASSUME AlignInv, OrderInv, LocateInv, NEW n \in NameLens, BeginFile(n)
  PROVE  LocateInv'
<1> DEFINE l == LfhLen(n)
           needed == SpaceNeeded(l, 0, TRUE)
           at == PosAfterPadding(needed)
           h == Structure("LFH", at, l, attempts + 1, 0, 0)
<1>1. l \in Nat /\ TypeOK /\ Behind /\ n \in Nat
  BY NameFacts DEF AlignInv, OrderInv
<1>2. at \in Nat
  BY <1>1, NeededIsNat, PaddingMovesForward
<1>3. /\ layout' = layout \cup PaddingLfh(needed) \cup {h}
      /\ cur' = OpenFile(n, at, at + l)
      /\ attempts' = attempts + 1
      /\ files' = files
  BY DEF BeginFile
<1>4. h.kind = "LFH" /\ h.id = attempts + 1 /\ h.at = at /\ h.len = l
  BY DEF Structure
<1>5. /\ cur'.name_len = n /\ cur'.local_header_offset = at
      /\ cur'.compressed_start_offset = at + l /\ cur'.total_uncompressed = 0
  BY <1>3 DEF OpenFile
<1> HIDE DEF at, h, needed
<1>6. \A s \in layout' : s \in layout \/ s.kind \notin {"Frame", "SOP"}
  BY <1>3, <1>4, PaddingIsNoFrame
<1>7. EntriesLocateData'
  BY <1>3, <1>6, SameEntries DEF LocateInv
<1>8. FramesOf(layout', attempts') = {}
  BY <1>1, <1>3, <1>6, NoFramesYet
<1>9. HeaderAt(layout', attempts', at, at + l)
  BY <1>3, <1>4 DEF HeaderAt
<1>10. OpenFileLocated'
  BY <1>5, <1>8, <1>9 DEF OpenFileLocated, l
<1> QED
  BY <1>7, <1>10 DEF LocateInv

\* Directories and empty files.
LEMMA AddHeaderOnlyLocates ==
  ASSUME AlignInv, OrderInv, LocateInv, NEW kind \in {"empty", "dir"}, NEW n \in NameLens,
         AddHeaderOnly(kind, n)
  PROVE  LocateInv'
<1> DEFINE l == LfhLen(n)
           needed == SpaceNeeded(l, 0, kind = "empty")
           at == PosAfterPadding(needed)
           h == Structure("LFH", at, l, attempts + 1, 0, 0)
           e == FileEntry(attempts + 1, kind, n, at, 0, 0)
<1>1. l \in Nat /\ TypeOK /\ Behind /\ n \in Nat /\ attempts \in Nat
  BY NameFacts DEF AlignInv, OrderInv, TypeOK
<1>2. at \in Nat
  <2>1. (kind = "empty") \in BOOLEAN
    BY Zenon
  <2> QED
    BY <1>1, <2>1, NeededIsNat, PaddingMovesForward
<1>3. /\ phase' = "adding"
      /\ layout' = layout \cup PaddingLfh(needed) \cup {h}
      /\ files' = Append(files, e)
  BY DEF AddHeaderOnly, NextEntry
<1>4. h.kind = "LFH"
  BY DEF Structure
<1> HIDE DEF at, needed
<1>5. \A s \in layout' : s \in layout \/ s.kind \notin {"Frame", "SOP"}
  <2> HIDE DEF h
  <2> QED
    BY <1>3, <1>4, PaddingIsNoFrame
<1>6. Located(e, layout')
  BY <1>1, <1>2, <1>3, <1>5, HeaderLocates
<1>7. e \in FileEntries
  BY <1>1, <1>2, FileEntryType DEF EntryKinds
<1> HIDE DEF e, h
<1>8. EntriesLocateData'
  BY <1>1, <1>3, <1>5, <1>6, <1>7, OneMoreEntry DEF LocateInv
<1> QED
  BY <1>3, <1>8 DEF LocateInv, OpenFileLocated

\* Symlinks.
LEMMA AddSymlinkLocates ==
  ASSUME AlignInv, OrderInv, LocateInv, NEW n \in NameLens, NEW t \in TargetLens,
         AddSymlink(n, t)
  PROVE  LocateInv'
<1> DEFINE l == LfhLen(n)
           needed == SpaceNeeded(l, t, FALSE)
           at == PosAfterPadding(needed)
           h == Structure("LFH", at, l, attempts + 1, 0, 0)
           c == Structure("Content", at + l, t, attempts + 1, 0, t)
           e == FileEntry(attempts + 1, "symlink", n, at, t, t)
<1>1. l \in Nat /\ t \in Nat /\ TypeOK /\ Behind /\ n \in Nat /\ attempts \in Nat
  BY NameFacts DEF AlignInv, OrderInv, TypeOK
<1>2. at \in Nat
  BY <1>1, NeededIsNat, PaddingMovesForward
<1>3. /\ phase' = "adding"
      /\ layout' = layout \cup PaddingLfh(needed) \cup {h, c}
      /\ files' = Append(files, e)
  BY DEF AddSymlink, NextEntry
<1>4. h.kind = "LFH" /\ c.kind = "Content"
  BY DEF Structure
<1> HIDE DEF at, needed
<1>5. \A s \in layout' : s \in layout \/ s.kind \notin {"Frame", "SOP"}
  <2> HIDE DEF h, c
  <2> QED
    BY <1>3, <1>4, PaddingIsNoFrame
<1>6. Located(e, layout')
  BY <1>1, <1>2, <1>3, <1>5, HeaderLocates
<1>7. e \in FileEntries
  BY <1>1, <1>2, FileEntryType DEF EntryKinds
<1> HIDE DEF e, h, c
<1>8. EntriesLocateData'
  BY <1>1, <1>3, <1>5, <1>6, <1>7, OneMoreEntry DEF LocateInv
<1> QED
  BY <1>3, <1>8 DEF LocateInv, OpenFileLocated

\* One iteration of the read loop: its frame ends at the new position and
\* at the new total, and entries of earlier calls are not concerned.
LEMMA WriteFrameLocates ==
  ASSUME AlignInv, OrderInv, LocateInv, NEW r \in ReadSizes, NEW f \in FrameSizes,
         WriteFrame(r, f)
  PROVE  LocateInv'
<1> DEFINE done == cur.total_uncompressed
           data == cur.compressed_start_offset
<1>1. /\ phase = "file" /\ phase' = "file"
      /\ files' = files /\ attempts' = attempts
      /\ cur' = [cur EXCEPT !.total_uncompressed = done + r,
                            !.bytes_read = r, !.frames = @ + 1]
  BY DEF WriteFrame
<1>2. /\ cur \in OpenFiles /\ r \in Nat /\ r > 0 /\ pos \in Nat /\ attempts \in Nat
      /\ done \in Nat /\ data \in Nat /\ data <= pos /\ TypeOK
  BY <1>1, FrameFacts, WriterAssumption DEF AlignInv, TypeOK, OpenFiles, MidFile
<1>3. /\ cur'.total_uncompressed = done + r
      /\ cur'.compressed_start_offset = data
      /\ cur'.local_header_offset = cur.local_header_offset
      /\ cur'.name_len = cur.name_len
  BY <1>1, <1>2 DEF OpenFiles
<1>4. PICK N : layout' = layout \cup N /\ Iteration(N, r)
  BY FrameStructures
<1>5. pos <= pos' /\ pos' \in Nat
  BY WriteFrameStep
<1>6. EntriesLocateData'
  <2>1. \A i \in 1..Len(files) : files[i].id # attempts
    BY <1>1, <1>2, EntryIds DEF OrderInv, OpenFileHasHeader
  <2>2. \A s \in N : s.id = attempts
    BY <1>4 DEF Iteration
  <2> QED
    BY <1>1, <1>4, <2>1, <2>2, SameEntries DEF LocateInv
<1>7. /\ data = cur.local_header_offset + LfhLen(cur.name_len)
      /\ HeaderAt(layout, attempts, cur.local_header_offset, data)
      /\ \A s \in FramesOf(layout, attempts) : data <= s.at /\ s.at + s.len <= pos
  BY <1>1 DEF LocateInv, OpenFileLocated
<1>8. HeaderAt(layout', attempts, cur.local_header_offset, data)
  BY <1>4, <1>7, Zenon DEF HeaderAt
<1>9. \A s \in FramesOf(layout', attempts) : data <= s.at /\ s.at + s.len <= pos'
  <2> SUFFICES ASSUME NEW s \in layout', s.kind = "Frame", s.id = attempts
               PROVE  data <= s.at /\ s.at + s.len <= pos'
    BY DEF FramesOf
  <2>1. CASE s \in layout
    <3>1. data <= s.at /\ s.at + s.len <= pos
      BY <1>7, <2>1 DEF FramesOf
    <3>2. s.at \in Nat /\ s.len \in Nat
      BY <1>2, <2>1 DEF TypeOK, Structures
    <3> QED
      BY <1>2, <1>5, <3>1, <3>2
  <2>2. CASE s \in N
    <3>1. pos <= s.at /\ s.at \in Nat /\ s.at + s.len <= pos'
      BY <1>4, <2>2 DEF Iteration
    <3> QED
      BY <1>2, <3>1
  <2> QED
    BY <1>4, <2>1, <2>2
<1>10. \E s \in FramesOf(layout', attempts) : s.uoff + s.ulen = done + r
  BY <1>4 DEF Iteration, FramesOf
<1>11. OpenFileLocated'
  BY <1>1, <1>3, <1>7, <1>8, <1>9, <1>10, Zenon DEF OpenFileLocated
<1> QED
  BY <1>6, <1>11 DEF LocateInv

\* The end of a file: what was located while it was open is its entry.
LEMMA EndFileLocates ==
  ASSUME AlignInv, OrderInv, LocateInv, EndFile
  PROVE  LocateInv'
<1> DEFINE csize == pos - cur.compressed_start_offset
           usize == cur.total_uncompressed
           dsize == DescriptorSize(csize, usize)
           pads == NeedsTrailingPadding(SpaceUntilBoundary(pos), dsize)
           pad == PaddingFrame(pos, attempts)
           at == IF pads THEN pos + pad.len + START_OF_PART_SIZE ELSE pos
           S == StartOfPart(pos + pad.len, attempts, usize)
           D == Structure("DD", at, dsize, attempts, 0, 0)
           e == FileEntry(attempts, "file", cur.name_len, cur.local_header_offset, csize, usize)
           data == cur.compressed_start_offset
<1>1. /\ phase = "file" /\ phase' = "adding"
      /\ layout' = layout \cup (IF pads THEN {pad, S} ELSE {}) \cup {D}
      /\ files' = Append(files, e)
  BY DEF EndFile
<1>2. /\ pos \in Nat /\ attempts \in Nat /\ usize \in Nat /\ TypeOK /\ data \in Nat
      /\ cur.name_len \in Nat /\ cur.local_header_offset \in Nat /\ csize \in Nat
  BY <1>1 DEF AlignInv, TypeOK, OpenFiles, MidFile
<1>3. S.kind = "SOP" /\ D.kind = "DD" /\ pad.kind = "Pad"
  BY DEF StartOfPart, PaddingFrame, Structure
<1>4. \A s \in layout' : s \in layout \/ s.kind # "Frame"
  <2> HIDE DEF S, D, pad, pads
  <2> QED
    BY <1>1, <1>3
<1>5. e \in FileEntries
  <2> HIDE DEF csize, usize
  <2> QED
    BY <1>2, FileEntryType DEF EntryKinds
<1>6. /\ e.id = attempts /\ e.name_len = cur.name_len /\ e.compressed_size = csize
      /\ e.local_header_offset = cur.local_header_offset /\ e.uncompressed_size = usize
  BY DEF FileEntry
<1>7. Located(e, layout)
  <2> HIDE DEF e
  <2>1. /\ data = e.local_header_offset + LfhLen(e.name_len)
        /\ HeaderAt(layout, e.id, e.local_header_offset, data)
        /\ \A s \in FramesOf(layout, e.id) : data <= s.at /\ s.at + s.len <= pos
        /\ usize > 0 => \E s \in FramesOf(layout, e.id) : s.uoff + s.ulen = usize
    BY <1>1, <1>6 DEF LocateInv, OpenFileLocated
  <2>2. data + csize = pos
    BY <1>2
  <2>3. \A s \in FramesOf(layout, e.id) : s.uoff + s.ulen <= usize
    BY <1>1, <1>6 DEF OrderInv, OffsetsReached, FramesOf
  <2> HIDE DEF data, csize, usize
  <2> QED
    BY <1>6, <2>1, <2>2, <2>3, Zenon DEF Located
<1> HIDE DEF e
<1>8. Located(e, layout')
  BY <1>1, <1>4, <1>7, StillLocated
<1>9. EntriesLocateData'
  BY <1>1, <1>2, <1>4, <1>5, <1>8, OneMoreEntry DEF LocateInv
<1> QED
  BY <1>1, <1>9 DEF LocateInv, OpenFileLocated

\* Steps that write no frame and no entry, with no file open afterwards.
LEMMA ElsewhereLocates ==
  ASSUME LocateInv, phase' # "file", files' = files, layout \subseteq layout',
         \A s \in layout' : s \in layout \/ s.kind # "Frame"
  PROVE  LocateInv'
  BY SameEntries DEF LocateInv, OpenFileLocated

\* Every step keeps the entries located.
LEMMA LocateInvStep ==
  ASSUME AlignInv, OrderInv, LocateInv, [Next]_vars
  PROVE  LocateInv'
<1>1. ASSUME NEW n \in NameLens, BeginFile(n) PROVE LocateInv'
  BY <1>1, BeginFileLocates
<1>2. ASSUME NEW n \in NameLens, NEW kind \in {"empty", "dir"}, AddHeaderOnly(kind, n)
      PROVE  LocateInv'
  BY <1>2, AddHeaderOnlyLocates
<1>3. ASSUME NEW n \in NameLens, NEW t \in TargetLens, AddSymlink(n, t) PROVE LocateInv'
  BY <1>3, AddSymlinkLocates
<1>4. ASSUME NEW r \in ReadSizes, NEW f \in FrameSizes, WriteFrame(r, f) PROVE LocateInv'
  BY <1>4, WriteFrameLocates
<1>5. CASE EndFile
  BY <1>5, EndFileLocates
<1>6. CASE SkipEntry \/ AbortFile \/ BeginFinalize
  BY <1>6, ElsewhereLocates DEF SkipEntry, NextEntry, AbortFile, BeginFinalize
<1>7. CASE WriteCentralHeader
  <2>1. \A at, l, id : Structure("CDFH", at, l, id, 0, 0).kind = "CDFH"
    BY DEF Structure
  <2> QED
    BY <1>7, <2>1, ElsewhereLocates DEF WriteCentralHeader
<1>8. CASE WriteEndRecords
  <2>1. \A at, l : Structure("End", at, l, 0, 0, 0).kind = "End"
    BY DEF Structure
  <2> QED
    BY <1>8, <2>1, ElsewhereLocates DEF WriteEndRecords
<1>9. CASE UNCHANGED vars
  BY <1>9, SameEntries DEF vars, LocateInv, OpenFileLocated
<1> QED
  BY <1>1, <1>2, <1>3, <1>4, <1>5, <1>6, <1>7, <1>8, <1>9 DEF Next

\* A directory entry always leads a reader to its data: its offset is that
\* of its own header, after the padding check_alignment_and_pad may have
\* written; its frames lie in the compressed_size bytes after the header,
\* padding and Start-of-Part frames included; and the last of them ends at
\* its uncompressed_size.
THEOREM EntriesLocateDataHolds == Spec => []EntriesLocateData
<1>1. Init => LocateInv
  BY DEF Init, LocateInv, EntriesLocateData, OpenFileLocated
<1>2. AlignInv /\ OrderInv /\ LocateInv /\ [Next]_vars => LocateInv'
  BY LocateInvStep
<1>3. LocateInv => EntriesLocateData
  BY DEF LocateInv
<1> QED
  BY <1>1, <1>2, <1>3, AlignInvariant, OrderInvariant, PTL DEF Spec

(***************************************************************************)
(* The BRST comment.  find_first_cdfh_in_tail computes the offsets of the  *)
(* directory headers again, from sizes of its own, so they have to be tied *)
(* to the headers write_central_directory wrote: "at" below is the         *)
(* position before each header and after the last one, and grows with the  *)
(* loop that writes them.                                                  *)
(***************************************************************************)
Headers(L) == {s \in L : s.kind = "CDFH"}

WrittenHeaders(n, at) ==
  {Structure("CDFH", at[i], CdfhLen(files[i]), files[i].id, 0, 0) : i \in 1..n}

WalkedTo(n, at) ==
  /\ at \in [1..(n + 1) -> Nat]
  /\ at[1] = central_dir_start
  /\ \A i \in 1..n : at[i + 1] = at[i] + CdfhLen(files[i])
  /\ \A i, j \in 1..(n + 1) : i <= j => at[i] <= at[j]

DirectoryWalked ==
  phase = "cd" =>
    /\ next_cdfh <= Len(files) + 1
    /\ \E at : /\ WalkedTo(next_cdfh - 1, at)
               /\ pos = at[next_cdfh]
               /\ Headers(layout) = WrittenHeaders(next_cdfh - 1, at)

NoHeadersYet == phase \notin {"cd", "done"} => Headers(layout) = {}

CommentInv == DirectoryWalked /\ NoHeadersYet /\ FirstCdfhInTail

\* A set of naturals has a least element.
LEMMA LeastNatural ==
  ASSUME NEW T, T \subseteq Nat, T # {}
  PROVE  \E x \in T : \A y \in T : x <= y
<1> DEFINE R == OpToRel(<, Nat)
<1>1. IsWellFoundedOn(R, Nat)
  BY NatLessThanWellFounded, Zenon
<1> HIDE DEF R
<1>2. PICK x \in T : \A y \in T : ~ (<<y, x>> \in R)
  BY <1>1, WFMin, Zenon
<1>3. ASSUME NEW y \in T PROVE x <= y
  <2>1. x \in Nat /\ y \in Nat
    OBVIOUS
  <2>2. y < x => <<y, x>> \in R
    BY <2>1 DEF R, OpToRel
  <2>3. ~(y < x)
    BY <1>2, <2>2
  <2> QED
    BY <2>1, <2>3
<1> QED
  BY <1>3

\* The size find_first_cdfh_in_tail computes is the one that was written.
LEMMA SizesAgree ==
  ASSUME NEW e \in FileEntries
  PROVE  calculate_cdfh_size(e) = CdfhLen(e)
<1> DEFINE field(v) == IF v > MAX32 THEN 8 ELSE 0
           u == e.uncompressed_size
           c == e.compressed_size
           o == e.local_header_offset
           total == field(u) + field(c) + field(o)
<1>1. \A v : field(v) \in {0, 8} /\ (field(v) = 8 <=> v > MAX32)
  OBVIOUS
<1>2. e.name_len \in Nat
  BY DEF FileEntries
<1>3. CdfhLen(e) = 46 + e.name_len + 15 + (IF total = 0 THEN 0 ELSE 4 + total)
  BY DEF CdfhLen, Zip64ExtraLen
<1>4. calculate_cdfh_size(e) =
        46 + e.name_len + 15 + (IF c > MAX32 \/ u > MAX32 \/ o > MAX32 THEN 4 ELSE 0)
           + field(u) + field(c) + field(o)
  BY DEF calculate_cdfh_size
<1> HIDE DEF field, u, c, o
<1>5. total = 0 <=> ~(c > MAX32 \/ u > MAX32 \/ o > MAX32)
  BY <1>1
<1>6. field(u) \in Nat /\ field(c) \in Nat /\ field(o) \in Nat
  BY <1>1
<1> QED
  BY <1>2, <1>3, <1>4, <1>5, <1>6

\* The equation that defines the offsets of the walk.
IsWalk(f) ==
  f = [i \in 1..Len(files) |->
         IF i = 1 THEN central_dir_start ELSE f[i - 1] + calculate_cdfh_size(files[i - 1])]

\* The recursive definition of CdfhOffsets defines something as soon as one
\* function satisfies its equation.
LEMMA OffsetsAreAWalk ==
  ASSUME NEW g, IsWalk(g)
  PROVE  IsWalk(CdfhOffsets)
<1>1. CdfhOffsets = CHOOSE f : IsWalk(f)
  BY Zenon DEF CdfhOffsets, IsWalk
<1>2. IsWalk(CHOOSE f : IsWalk(f))
  BY Zenon
<1> QED
  BY <1>1, <1>2, Zenon

\* When all headers are written the walk of find_first_cdfh_in_tail visits
\* the positions at which they were written: the least index at which the
\* two would differ is neither the first nor any other.
LEMMA OffsetsAsWritten ==
  ASSUME TypeOK, NEW at, WalkedTo(Len(files), at)
  PROVE  \A i \in 1..Len(files) : CdfhOffsets[i] = at[i]
<1> DEFINE n == Len(files)
           off == CdfhOffsets
           bad == {i \in 1..n : off[i] # at[i]}
<1>1. n \in Nat /\ \A i \in 1..n : files[i] \in FileEntries
  BY DEF TypeOK
<1>2. \A i \in 1..n : calculate_cdfh_size(files[i]) = CdfhLen(files[i])
  BY <1>1, SizesAgree
<1>3. /\ at[1] = central_dir_start
      /\ \A i \in 1..n : at[i + 1] = at[i] + CdfhLen(files[i])
  BY DEF WalkedTo
<1> DEFINE g == [i \in 1..n |-> at[i]]
<1>4. IsWalk(g)
  <2>1. ASSUME NEW i \in 1..n
        PROVE  at[i] = IF i = 1 THEN central_dir_start
                       ELSE g[i - 1] + calculate_cdfh_size(files[i - 1])
    <3>1. CASE i = 1
      BY <1>3, <3>1
    <3>2. CASE i # 1
      <4>1. i - 1 \in 1..n /\ (i - 1) + 1 = i
        BY <1>1, <3>2
      <4> QED
        BY <1>2, <1>3, <3>2, <4>1
    <3> QED
      BY <3>1, <3>2
  <2> QED
    BY <2>1 DEF IsWalk
<1>5. IsWalk(off)
  BY <1>4, OffsetsAreAWalk
<1> HIDE DEF off
<1>6. \A i \in 1..n : off[i] = IF i = 1 THEN central_dir_start
                               ELSE off[i - 1] + calculate_cdfh_size(files[i - 1])
  BY <1>5 DEF IsWalk
<1> SUFFICES ASSUME bad # {} PROVE FALSE
  BY DEF off
<1>7. PICK i \in bad : \A j \in bad : i <= j
  <2>1. bad \subseteq Nat
    BY <1>1
  <2> HIDE DEF bad
  <2> QED
    BY <2>1, LeastNatural
<1>8. i # 1
  BY <1>3, <1>6, <1>7
<1>9. i - 1 \in 1..n /\ i - 1 \notin bad /\ (i - 1) + 1 = i
  BY <1>1, <1>7, <1>8
<1>10. off[i] = off[i - 1] + CdfhLen(files[i - 1]) /\ off[i - 1] = at[i - 1]
  BY <1>2, <1>6, <1>8, <1>9
<1>11. at[i] = at[i - 1] + CdfhLen(files[i - 1])
  BY <1>3, <1>9
<1>12. off[i] # at[i]
  BY <1>7
<1> QED
  BY <1>10, <1>11, <1>12, Zenon

\* Finalizing starts with an empty directory.
LEMMA BeginFinalizeWalks ==
  ASSUME TypeOK, CommentInv, BeginFinalize
  PROVE  CommentInv'
<1>1. /\ phase = "adding" /\ phase' \in {"cd", "failed"} /\ pos' = pos
      /\ layout' = layout /\ files' = files /\ next_cdfh' = 1 /\ central_dir_start' = pos
  BY DEF BeginFinalize
<1>2. pos \in Nat /\ Len(files) \in Nat /\ Headers(layout) = {}
  BY <1>1 DEF TypeOK, CommentInv, NoHeadersYet
<1>0. PICK at : at = [i \in 1..1 |-> pos]
  OBVIOUS
<1>3. WalkedTo(0, at)' /\ at[1] = pos
  BY <1>0, <1>1, <1>2 DEF WalkedTo
<1>4. WrittenHeaders(0, at)' = {}
  BY DEF WrittenHeaders
<1>5. DirectoryWalked'
  <2>1. WalkedTo(next_cdfh - 1, at)' /\ WrittenHeaders(next_cdfh - 1, at)' = {}
    BY <1>1, <1>3, <1>4
  <2> QED
    BY <1>1, <1>2, <1>3, <2>1 DEF DirectoryWalked, Headers
<1> QED
  BY <1>1, <1>2, <1>5 DEF CommentInv, NoHeadersYet, FirstCdfhInTail, Headers

\* One more header: it lies at the position, and the walk grows by its size.
LEMMA WriteCentralHeaderWalks ==
  ASSUME TypeOK, CommentInv, WriteCentralHeader
  PROVE  CommentInv'
<1>0. PICK n : n = next_cdfh
  OBVIOUS
<1> DEFINE e == files[n]
           s == Structure("CDFH", pos, CdfhLen(e), e.id, 0, 0)
<1>1. /\ phase = "cd" /\ phase' = "cd" /\ n <= Len(files)
      /\ layout' = layout \cup {s} /\ pos' = pos + CdfhLen(e)
      /\ next_cdfh' = n + 1 /\ files' = files /\ central_dir_start' = central_dir_start
  BY <1>0 DEF WriteCentralHeader
<1>2. pos \in Nat /\ n \in 1..Len(files) /\ n \in Nat /\ Len(files) \in Nat
  BY <1>0, <1>1 DEF TypeOK
<1>3. CdfhLen(e) \in Nat
  <2>1. e \in FileEntries
    BY <1>2 DEF TypeOK
  <2> QED
    BY <2>1, CdfhLenType
<1>4. PICK at : /\ WalkedTo(n - 1, at) /\ pos = at[n]
                /\ Headers(layout) = WrittenHeaders(n - 1, at)
  BY <1>0, <1>1 DEF CommentInv, DirectoryWalked
<1>5. /\ at \in [1..n -> Nat] /\ at[1] = central_dir_start
      /\ \A i \in 1..(n - 1) : at[i + 1] = at[i] + CdfhLen(files[i])
      /\ \A i, j \in 1..n : i <= j => at[i] <= at[j]
  <2>1. (n - 1) + 1 = n
    BY <1>2
  <2> QED
    BY <1>4, <2>1 DEF WalkedTo
<1>6. PICK to : to = [i \in 1..(n + 1) |-> IF i = n + 1 THEN pos + CdfhLen(e) ELSE at[i]]
  OBVIOUS
<1>7. s.kind = "CDFH"
  BY DEF Structure
<1> HIDE DEF e
<1>8. \A i \in 1..n : i \in 1..(n + 1) /\ i # n + 1 /\ to[i] = at[i]
  BY <1>2, <1>6
<1>9. to[n + 1] = pos + CdfhLen(e) /\ to \in [1..(n + 1) -> Nat]
  <2>1. ASSUME NEW i \in 1..(n + 1), i # n + 1 PROVE i \in 1..n
    BY <1>2, <2>1
  <2> QED
    BY <1>2, <1>3, <1>5, <1>6, <2>1
<1>10. \A i \in 1..n : to[i + 1] = to[i] + CdfhLen(files[i])
  <2> SUFFICES ASSUME NEW i \in 1..n PROVE to[i + 1] = to[i] + CdfhLen(files[i])
    OBVIOUS
  <2>1. CASE i = n
    BY <1>4, <1>8, <1>9, <2>1 DEF e
  <2>2. CASE i # n
    <3>1. i \in 1..(n - 1) /\ i + 1 \in 1..n
      BY <1>2, <2>2
    <3> QED
      BY <1>5, <1>8, <3>1
  <2> QED
    BY <2>1, <2>2
<1>11. \A i, j \in 1..(n + 1) : i <= j => to[i] <= to[j]
  <2> SUFFICES ASSUME NEW i \in 1..(n + 1), NEW j \in 1..(n + 1), i <= j
               PROVE  to[i] <= to[j]
    OBVIOUS
  <2>1. CASE j = n + 1 /\ i # n + 1
    <3>1. i \in 1..n /\ n \in 1..n /\ i <= n
      BY <1>2, <2>1
    <3>2. at[i] <= pos /\ at[i] \in Nat
      BY <1>4, <1>5, <3>1
    <3> QED
      BY <1>2, <1>3, <1>8, <1>9, <2>1, <3>1, <3>2
  <2>2. CASE i = n + 1
    <3>1. j = n + 1
      BY <1>2, <2>2
    <3> QED
      BY <1>9, <2>2, <3>1
  <2>3. CASE j # n + 1 /\ i # n + 1
    <3>1. i \in 1..n /\ j \in 1..n
      BY <1>2, <2>3
    <3> QED
      BY <1>5, <1>8, <3>1
  <2> QED
    BY <2>1, <2>2, <2>3
<1>12. to[1] = central_dir_start
  BY <1>2, <1>5, <1>8
<1>13. WalkedTo(n, to)'
  BY <1>1, <1>9, <1>10, <1>11, <1>12 DEF WalkedTo
<1>14. Headers(layout') = WrittenHeaders(n, to)
  <2> DEFINE H(i, a) == Structure("CDFH", a[i], CdfhLen(files[i]), files[i].id, 0, 0)
  <2>1. Headers(layout') = Headers(layout) \cup {s}
    BY <1>1, <1>7 DEF Headers
  <2>2. s = H(n, to)
    BY <1>2, <1>4, <1>8 DEF e
  <2>3. \A i \in 1..(n - 1) : i \in 1..n /\ H(i, to) = H(i, at)
    BY <1>2, <1>8
  <2>4. /\ WrittenHeaders(n, to) = {H(i, to) : i \in 1..n}
        /\ WrittenHeaders(n - 1, at) = {H(i, at) : i \in 1..(n - 1)}
    BY DEF WrittenHeaders
  <2>5. \A i \in 1..n : i = n \/ i \in 1..(n - 1)
    BY <1>2
  <2> HIDE DEF H, s
  <2>6. {H(i, to) : i \in 1..n} = {H(i, at) : i \in 1..(n - 1)} \cup {s}
    BY <1>2, <2>2, <2>3, <2>5
  <2> QED
    BY <1>4, <2>1, <2>4, <2>6
<1>15. WrittenHeaders(n, to)' = WrittenHeaders(n, to)
  BY <1>1 DEF WrittenHeaders
<1>16. DirectoryWalked'
  <2>1. next_cdfh' - 1 = n /\ next_cdfh' = n + 1 /\ next_cdfh' <= Len(files') + 1
    BY <1>1, <1>2
  <2>2. WalkedTo(next_cdfh - 1, to)' /\ pos' = to[next_cdfh']
    BY <1>1, <1>9, <1>13, <2>1
  <2>3. Headers(layout') = WrittenHeaders(next_cdfh - 1, to)'
    BY <1>14, <1>15, <2>1
  <2> QED
    BY <2>1, <2>2, <2>3 DEF DirectoryWalked
<1> QED
  BY <1>1, <1>16 DEF CommentInv, NoHeadersYet, FirstCdfhInTail

\* The comment: the least index the walk finds in the tail is that of the
\* first header of the tail.
LEMMA WriteEndRecordsNames ==
  ASSUME TypeOK, CommentInv, WriteEndRecords
  PROVE  CommentInv'
<1> DEFINE size == EOCD64_SIZE + LOCATOR_SIZE + EOCD_SIZE
           x == Structure("End", pos, size, 0, 0, 0)
           n == Len(files)
           ts == (pos + size) - PART_SIZE
           found == {i \in 1..n : CdfhOffsets[i] >= ts}
           least == CHOOSE i \in found : \A j \in found : i <= j
           inTail == {s \in layout' : s.kind = "CDFH" /\ s.at >= ts}
           H(i, a) == Structure("CDFH", a[i], CdfhLen(files[i]), files[i].id, 0, 0)
<1>1. /\ phase = "cd" /\ phase' = "done" /\ next_cdfh > n
      /\ first_cdfh_offset' = find_first_cdfh_in_tail(pos + size)
      /\ layout' = layout \cup {x} /\ pos' = pos + size
      /\ central_dir_start' = central_dir_start
  BY DEF WriteEndRecords
<1>2. /\ n \in Nat /\ next_cdfh \in Nat /\ pos \in Nat /\ size \in Nat
      /\ central_dir_start \in Nat /\ PART_SIZE \in Nat
  BY Sizes DEF TypeOK, EOCD64_SIZE, LOCATOR_SIZE, EOCD_SIZE
<1>3. next_cdfh - 1 = n
  BY <1>1, <1>2 DEF CommentInv, DirectoryWalked
<1>4. PICK at : WalkedTo(n, at) /\ Headers(layout) = WrittenHeaders(n, at)
  BY <1>1, <1>3 DEF CommentInv, DirectoryWalked
<1>5. \A i \in 1..n : CdfhOffsets[i] = at[i]
  BY <1>4, OffsetsAsWritten
<1>6. /\ \A i \in 1..n : at[i] \in Nat
      /\ \A i, j \in 1..n : i <= j => at[i] <= at[j]
  <2>1. \A i \in 1..n : i \in 1..(n + 1)
    BY <1>2
  <2>2. /\ at \in [1..(n + 1) -> Nat]
        /\ \A i, j \in 1..(n + 1) : i <= j => at[i] <= at[j]
    BY <1>4 DEF WalkedTo
  <2> HIDE DEF n
  <2> QED
    BY <2>1, <2>2
<1>7. \A i : H(i, at).kind = "CDFH" /\ H(i, at).at = at[i]
  BY DEF Structure
<1>8. x.kind = "End"
  BY DEF Structure
<1>9. Headers(layout') = {H(i, at) : i \in 1..n}
  <2>1. Headers(layout') = Headers(layout)
    BY <1>1, <1>8 DEF Headers
  <2> QED
    BY <1>4, <2>1 DEF WrittenHeaders
<1> SUFFICES ASSUME pos + size > PART_SIZE, central_dir_start < ts
             PROVE  IF inTail = {}
                    THEN first_cdfh_offset' = BURST_EOCD_NO_CDFH_IN_TAIL
                    ELSE /\ \E s \in inTail : s.at = ts + first_cdfh_offset'
                         /\ \A s \in inTail : s.at >= ts + first_cdfh_offset'
  BY <1>1 DEF CommentInv, DirectoryWalked, NoHeadersYet, FirstCdfhInTail
<1> HIDE DEF size, x, H
<1>10. first_cdfh_offset' = IF found = {} THEN BURST_EOCD_NO_CDFH_IN_TAIL
                            ELSE CdfhOffsets[least] - ts
  <2>1. ~(pos + size <= PART_SIZE) /\ ~(central_dir_start >= ts)
    BY <1>2
  <2>2. find_first_cdfh_in_tail(pos + size) =
          IF pos + size <= PART_SIZE \/ central_dir_start >= ts
          THEN 0
          ELSE IF found = {} THEN BURST_EOCD_NO_CDFH_IN_TAIL ELSE CdfhOffsets[least] - ts
    BY Zenon DEF find_first_cdfh_in_tail
  <2> HIDE DEF ts, found, least
  <2> QED
    BY <1>1, <2>1, <2>2, Zenon
<1>11. found = {i \in 1..n : at[i] >= ts}
  BY <1>5
<1>12. ts \in Int
  BY <1>2
<1> HIDE DEF ts, n
<1>13. inTail = {H(i, at) : i \in found}
  <2>1. inTail = {s \in Headers(layout') : s.at >= ts}
    BY DEF Headers
  <2> HIDE DEF found, inTail
  <2> QED
    BY <1>7, <1>9, <1>11, <2>1
<1>14. CASE found = {}
  <2>1. inTail = {}
    BY <1>13, <1>14
  <2> QED
    BY <1>10, <1>14, <2>1
<1>15. CASE found # {}
  <2>1. \E i \in found : \A j \in found : i <= j
    <3>1. found \subseteq Nat
      BY <1>2
    <3> HIDE DEF found
    <3> QED
      BY <1>15, <3>1, LeastNatural
  <2>2. least \in found /\ \A j \in found : least <= j
    <3> HIDE DEF found
    <3> QED
      BY <2>1, Zenon
  <2> HIDE DEF least
  <2>3. least \in 1..n /\ at[least] \in Nat /\ first_cdfh_offset' = at[least] - ts
    BY <1>5, <1>6, <1>10, <1>15, <2>2
  <2>4. ts + first_cdfh_offset' = at[least]
    BY <1>12, <2>3
  <2>5. H(least, at) \in inTail /\ H(least, at).at = at[least]
    <3> HIDE DEF inTail, found
    <3> QED
      BY <1>7, <1>13, <2>2
  <2>6. \A s \in inTail : s.at >= at[least]
    <3> SUFFICES ASSUME NEW j \in found PROVE at[j] >= at[least]
      <4> HIDE DEF inTail, found
      <4> QED
        BY <1>7, <1>13
    <3>1. j \in 1..n /\ least <= j /\ at[j] \in Nat
      BY <1>6, <2>2
    <3> QED
      BY <1>6, <2>3, <3>1
  <2> HIDE DEF inTail
  <2> QED
    BY <2>4, <2>5, <2>6
<1> QED
  BY <1>14, <1>15

\* Steps before finalizing add no directory headers.
LEMMA NoHeaderWritten ==
  ASSUME CommentInv, phase \in {"adding", "file"}, phase' \in {"adding", "file"},
         \A s \in layout' : s \in layout \/ s.kind # "CDFH"
  PROVE  CommentInv'
  BY DEF CommentInv, DirectoryWalked, NoHeadersYet, FirstCdfhInTail, Headers

LEMMA CommentInvStep ==
  ASSUME AlignInv, CommentInv, [Next]_vars
  PROVE  CommentInv'
<1>0. /\ TypeOK
      /\ \A at, l, id : Structure("LFH", at, l, id, 0, 0).kind = "LFH"
      /\ \A at, l, id, u : Structure("Content", at, l, id, 0, u).kind = "Content"
      /\ \A at, l, id : Structure("DD", at, l, id, 0, 0).kind = "DD"
      /\ \A at, l, id, o, u : Structure("Frame", at, l, id, o, u).kind = "Frame"
      /\ \A at, id, o : StartOfPart(at, id, o).kind = "SOP"
      /\ \A at, id : PaddingFrame(at, id).kind = "Pad"
  BY DEF AlignInv, Structure, StartOfPart, PaddingFrame
<1>1. ASSUME NEW n \in NameLens, BeginFile(n) PROVE CommentInv'
  BY <1>0, <1>1, PaddingIsNoFrame, NoHeaderWritten DEF BeginFile, NextEntry
<1>2. ASSUME NEW n \in NameLens, NEW kind \in {"empty", "dir"}, AddHeaderOnly(kind, n)
      PROVE  CommentInv'
  BY <1>0, <1>2, PaddingIsNoFrame, NoHeaderWritten DEF AddHeaderOnly, NextEntry
<1>3. ASSUME NEW n \in NameLens, NEW t \in TargetLens, AddSymlink(n, t) PROVE CommentInv'
  BY <1>0, <1>3, PaddingIsNoFrame, NoHeaderWritten DEF AddSymlink, NextEntry
<1>4. ASSUME NEW r \in ReadSizes, NEW f \in FrameSizes, WriteFrame(r, f) PROVE CommentInv'
  BY <1>0, <1>4, NoHeaderWritten DEF WriteFrame
<1>5. CASE EndFile
  BY <1>0, <1>5, NoHeaderWritten DEF EndFile
<1>6. CASE SkipEntry \/ AbortFile
  BY <1>6, NoHeaderWritten DEF SkipEntry, NextEntry, AbortFile
<1>7. CASE BeginFinalize
  BY <1>0, <1>7, BeginFinalizeWalks
<1>8. CASE WriteCentralHeader
  BY <1>0, <1>8, WriteCentralHeaderWalks
<1>9. CASE WriteEndRecords
  BY <1>0, <1>9, WriteEndRecordsNames
<1>10. CASE UNCHANGED vars
  <2>1. /\ phase' = phase /\ pos' = pos /\ layout' = layout /\ files' = files
        /\ next_cdfh' = next_cdfh /\ central_dir_start' = central_dir_start
        /\ first_cdfh_offset' = first_cdfh_offset
    BY <1>10 DEF vars, finalizeVars
  <2>2. DirectoryWalked'
    BY <2>1 DEF CommentInv, DirectoryWalked, WalkedTo, WrittenHeaders
  <2> QED
    BY <2>1, <2>2 DEF CommentInv, NoHeadersYet, FirstCdfhInTail
<1> QED
  BY <1>1, <1>2, <1>3, <1>4, <1>5, <1>6, <1>7, <1>8, <1>9, <1>10 DEF Next

\* The BRST comment names the first directory header that starts in the last
\* PART_SIZE bytes, or says that there is none: find_first_cdfh_in_tail's own
\* sizes never drift from those of write_central_directory, however long the
\* directory and whichever entries carry a ZIP64 field.
THEOREM FirstCdfhInTailHolds == Spec => []FirstCdfhInTail
<1>1. Init => CommentInv
  BY DEF Init, CommentInv, DirectoryWalked, NoHeadersYet, FirstCdfhInTail, Headers
<1>2. AlignInv /\ CommentInv /\ [Next]_vars => CommentInv'
  BY CommentInvStep
<1>3. CommentInv => FirstCdfhInTail
  BY DEF CommentInv
<1> QED
  BY <1>1, <1>2, <1>3, AlignInvariant, PTL DEF Spec
=============================================================================
