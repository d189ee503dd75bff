------------------------- MODULE WriterTilingProofs -------------------------
(***************************************************************************)
(* The archive as a reader meets it: the structures below the central      *)
(* directory lie one behind the other, in the order of the entries they    *)
(* belong to, each entry after its own header, and the offsets of frames   *)
(* and Start-of-Part frames count the bytes of the frames before them.     *)
(* None of this is a property of a run by itself; it is what the restore   *)
(* relies on (RestoreProofs, RestoreDeliveryProofs).                       *)
(***************************************************************************)
EXTENDS BurstWriterProofs

\* Everything but the central directory.
Body(L) == {s \in L : s.kind \notin {"CDFH", "End"}}

\* The structures do not overlap, and each ends where another starts or
\* where the data ends.
Tiled(L, end) ==
  \A s \in L :
    /\ s.len > 0 /\ s.at + s.len <= end
    /\ s.at + s.len = end \/ \E t \in L : t.at = s.at + s.len
    /\ \A t \in L : t = s \/ s.at + s.len <= t.at \/ t.at + t.len <= s.at

\* Start-of-Part frames stand on boundaries; no header is shorter than the
\* bytes parse_next_frame asks for before it looks at it.
Sized(s) ==
  /\ s.kind = "SOP" => s.len = 24 /\ SpaceUntilBoundary(s.at) = PART_SIZE
  /\ s.kind \in {"LFH", "PadLFH"} => s.len >= 30
  /\ s.kind = "LFH" => \E n \in NameLens : s.len = LfhLen(n)
  /\ s.kind = "DD" => s.len >= 16
  /\ s.kind = "Frame" => s.len \in FrameSizes

\* The entries lie in the order of the calls that wrote them.
Ordered(L, last) ==
  \A s \in L : s.id <= last /\ \A t \in L : s.at < t.at => s.id <= t.id

\* Everything but padding headers follows the header of its entry, and
\* nothing but padding headers comes before that.
Headed(L) ==
  \A s \in L :
    /\ s.kind # "PadLFH" => \E h \in L : h.kind = "LFH" /\ h.id = s.id /\ h.at <= s.at
    /\ s.kind \in {"LFH", "PadLFH"} =>
         \A t \in L : t.id = s.id /\ t.at < s.at => t.kind = "PadLFH"

\* A header follows what ends an entry, and padding headers; unless no file
\* is open and the data ends there.
HeaderFollows(L, s) == \E t \in L : t.kind \in {"LFH", "PadLFH"} /\ t.at = s.at + s.len

Followed(L, end, open) ==
  \A s \in L : s.kind \in {"DD", "Content", "PadLFH"} =>
    HeaderFollows(L, s) \/ (open = 0 /\ s.at + s.len = end)

\* The frames of an entry before a position hold u bytes: the last of them
\* ends at u.
FramesBefore(L, id, at) == {f \in L : f.kind = "Frame" /\ f.id = id /\ f.at < at}

Reached(L, id, at, u) ==
  /\ \A f \in FramesBefore(L, id, at) : f.uoff + f.ulen <= u
  /\ \/ FramesBefore(L, id, at) = {} /\ u = 0
     \/ \E f \in FramesBefore(L, id, at) : f.uoff + f.ulen = u

Counted(L) == \A s \in L : s.kind \in {"Frame", "SOP"} => Reached(L, s.id, s.at, s.uoff)

\* The target of a symlink is one piece, right behind its header.
TargetsPlaced(L) ==
  \A c \in L : c.kind = "Content" =>
    /\ c.uoff = 0 /\ c.ulen = c.len
    /\ \E h \in L : h.kind = "LFH" /\ h.id = c.id /\ h.at + h.len = c.at

\* "open" is the id of the file whose data is being written, 0 for none; u
\* is what has been read of it.
InFile(L, end, open, u) ==
  open # 0 => /\ Reached(L, open, end, u)
              /\ \E h \in L : h.kind = "LFH" /\ h.id = open
              /\ \A s \in L : s.id = open => s.kind \notin {"DD", "Content"}

Chain(L, end, open, u, last) ==
  /\ Tiled(L, end)
  /\ \A s \in L : Sized(s)
  /\ Ordered(L, last)
  /\ Headed(L)
  /\ Followed(L, end, open)
  /\ Counted(L)
  /\ TargetsPlaced(L)
  /\ InFile(L, end, open, u)

(***************************************************************************)
(* One more structure at the end of the data.                              *)
(***************************************************************************)

\* It extends the tiling.
LEMMA TiledExtends ==
  ASSUME NEW L \in SUBSET Structures, NEW end \in Nat, Tiled(L, end),
         NEW s \in Structures, s.at = end, s.len > 0
  PROVE  Tiled(L \cup {s}, end + s.len)
<1>1. s.len \in Nat /\ \A t \in L : t.at \in Nat /\ t.len \in Nat
  BY DEF Structures
<1>2. \A t \in L : t.len > 0 /\ t.at + t.len <= end
  BY DEF Tiled
<1> SUFFICES ASSUME NEW x \in L \cup {s}
             PROVE  /\ x.len > 0 /\ x.at + x.len <= end + s.len
                    /\ \/ x.at + x.len = end + s.len
                       \/ \E t \in L \cup {s} : t.at = x.at + x.len
                    /\ \A t \in L \cup {s} :
                         t = x \/ x.at + x.len <= t.at \/ t.at + t.len <= x.at
  BY DEF Tiled
<1>3. CASE x = s
  BY <1>1, <1>2, <1>3
<1>4. CASE x \in L
  <2>1. x.len > 0 /\ x.at + x.len <= end + s.len
    BY <1>1, <1>2, <1>4
  <2>2. x.at + x.len = end \/ \E t \in L : t.at = x.at + x.len
    BY <1>4 DEF Tiled
  <2>3. \A t \in L : t = x \/ x.at + x.len <= t.at \/ t.at + t.len <= x.at
    BY <1>4 DEF Tiled
  <2>4. x.at + x.len <= s.at
    BY <1>2, <1>4
  <2> QED
    BY <2>1, <2>2, <2>3, <2>4
<1> QED
  BY <1>3, <1>4

\* Nothing of the data reaches beyond its end.
LEMMA TiledBelow ==
  ASSUME NEW L \in SUBSET Structures, NEW end \in Nat, Tiled(L, end), NEW t \in L
  PROVE  t.at \in Nat /\ t.len \in Nat /\ t.id \in Nat /\ t.at < end
<1>1. t.at \in Nat /\ t.len \in Nat /\ t.id \in Nat
  BY DEF Structures
<1>2. t.len > 0 /\ t.at + t.len <= end
  BY DEF Tiled
<1> QED
  BY <1>1, <1>2

\* It does not change what lies before a position that was there.
LEMMA ReachedExtends ==
  ASSUME NEW L, NEW end \in Nat, NEW s, s.at = end,
         NEW id, NEW at \in Nat, at <= end, NEW u, Reached(L, id, at, u)
  PROVE  Reached(L \cup {s}, id, at, u)
<1>1. ~(s.at < at)
  OBVIOUS
<1>2. FramesBefore(L \cup {s}, id, at) = FramesBefore(L, id, at)
  BY <1>1, Zenon DEF FramesBefore
<1> QED
  BY <1>2, Zenon DEF Reached

LEMMA CountedExtends ==
  ASSUME NEW L \in SUBSET Structures, NEW end \in Nat, Tiled(L, end), Counted(L),
         NEW s \in Structures, s.at = end,
         s.kind \in {"Frame", "SOP"} => Reached(L, s.id, end, s.uoff)
  PROVE  Counted(L \cup {s})
<1> SUFFICES ASSUME NEW x \in L \cup {s}, x.kind \in {"Frame", "SOP"}
             PROVE  Reached(L \cup {s}, x.id, x.at, x.uoff)
  BY DEF Counted
<1>1. CASE x = s
  <2>1. Reached(L, s.id, s.at, s.uoff) /\ s.at \in Nat /\ s.at <= end
    BY <1>1
  <2> QED
    BY <1>1, <2>1, ReachedExtends
<1>2. CASE x \in L
  <2>1. Reached(L, x.id, x.at, x.uoff)
    BY <1>2 DEF Counted
  <2>2. x.at \in Nat /\ x.at <= end
    BY <1>2, TiledBelow
  <2> QED
    BY <2>1, <2>2, ReachedExtends
<1> QED
  BY <1>1, <1>2

LEMMA OrderedExtends ==
  ASSUME NEW L \in SUBSET Structures, NEW end \in Nat, Tiled(L, end),
         NEW last \in Nat, Ordered(L, last),
         NEW s \in Structures, s.at = end, last <= s.id
  PROVE  Ordered(L \cup {s}, s.id)
<1>1. s.id \in Nat
  BY DEF Structures
<1>2. \A t \in L : t.at \in Nat /\ t.id \in Nat /\ t.at < end /\ t.id <= last
  BY TiledBelow DEF Ordered
<1>3. \A t \in L : t.id <= s.id /\ t.at < s.at /\ ~(s.at < t.at)
  BY <1>1, <1>2
<1>4. \A x, t \in L : x.at < t.at => x.id <= t.id
  BY DEF Ordered
<1> QED
  BY <1>1, <1>3, <1>4 DEF Ordered

LEMMA TargetsExtend ==
  ASSUME NEW L, TargetsPlaced(L), NEW s,
         s.kind = "Content" =>
           /\ s.uoff = 0 /\ s.ulen = s.len
           /\ \E h \in L : h.kind = "LFH" /\ h.id = s.id /\ h.at + h.len = s.at
  PROVE  TargetsPlaced(L \cup {s})
  BY Zenon DEF TargetsPlaced

\* A local header, or the padding header before it, while no file is open.
LEMMA AppendHeader ==
  ASSUME NEW L \in SUBSET Structures, NEW end \in Nat, NEW last \in Nat, NEW u,
         Chain(L, end, 0, u, last),
         NEW s \in Structures, s.at = end, s.len >= 30, s.kind \in {"LFH", "PadLFH"}, Sized(s),
         last <= s.id, s.id # 0,
         \A t \in L : t.id = s.id => t.kind = "PadLFH"
  PROVE  Chain(L \cup {s}, end + s.len, IF s.kind = "LFH" THEN s.id ELSE 0, 0, s.id)
<1> DEFINE M == L \cup {s}
           open == IF s.kind = "LFH" THEN s.id ELSE 0
<1>1. Tiled(L, end) /\ Ordered(L, last) /\ Counted(L) /\ TargetsPlaced(L)
      /\ (\A t \in L : Sized(t)) /\ Headed(L) /\ Followed(L, end, 0)
  BY DEF Chain
<1>2. s.len > 0
  BY DEF Structures
<1>3. Tiled(M, end + s.len) /\ Ordered(M, s.id)
  BY <1>1, <1>2, TiledExtends, OrderedExtends
<1>4. Counted(M) /\ TargetsPlaced(M)
  BY <1>1, CountedExtends, TargetsExtend
<1>5. \A t \in M : Sized(t)
  BY <1>1
<1>6. Headed(M)
  <2>1. \A t \in L : t.at < s.at /\ ~(s.at < t.at) /\ t.at \in Nat
    BY <1>1, TiledBelow
  <2>2. s.at <= s.at
    OBVIOUS
  <2> SUFFICES ASSUME NEW x \in M
               PROVE  /\ x.kind # "PadLFH" =>
                           \E h \in M : h.kind = "LFH" /\ h.id = x.id /\ h.at <= x.at
                      /\ x.kind \in {"LFH", "PadLFH"} =>
                           \A t \in M : t.id = x.id /\ t.at < x.at => t.kind = "PadLFH"
    BY DEF Headed
  <2>3. CASE x = s
    BY <2>2, <2>3
  <2>4. CASE x \in L
    BY <1>1, <2>1, <2>4 DEF Headed
  <2> QED
    BY <2>3, <2>4
<1>7. Followed(M, end + s.len, open)
  <2> SUFFICES ASSUME NEW x \in M, x.kind \in {"DD", "Content", "PadLFH"}
               PROVE  HeaderFollows(M, x) \/ (open = 0 /\ x.at + x.len = end + s.len)
    BY DEF Followed
  <2>1. CASE x = s
    BY <2>1
  <2>2. CASE x \in L
    <3>1. HeaderFollows(L, x) \/ x.at + x.len = end
      BY <1>1, <2>2 DEF Followed
    <3> QED
      BY <3>1 DEF HeaderFollows
  <2> QED
    BY <2>1, <2>2
<1>8. InFile(M, end + s.len, open, 0)
  <2> SUFFICES ASSUME s.kind = "LFH"
               PROVE  /\ Reached(M, s.id, end + s.len, 0)
                      /\ \E h \in M : h.kind = "LFH" /\ h.id = s.id
                      /\ \A t \in M : t.id = s.id => t.kind \notin {"DD", "Content"}
    BY DEF InFile
  <2>1. FramesBefore(M, s.id, end + s.len) = {}
    BY DEF FramesBefore
  <2>2. Reached(M, s.id, end + s.len, 0)
    BY <2>1 DEF Reached
  <2> QED
    BY <2>2
<1> QED
  BY <1>3, <1>4, <1>5, <1>6, <1>7, <1>8 DEF Chain

\* The structures of an open file lie behind its header and end no entry
\* before them.
LEMMA HeadedExtends ==
  ASSUME NEW L \in SUBSET Structures, NEW end \in Nat, Tiled(L, end), Headed(L),
         NEW s \in Structures, s.at = end, s.kind \notin {"LFH", "PadLFH"},
         \E h \in L : h.kind = "LFH" /\ h.id = s.id
  PROVE  Headed(L \cup {s})
<1>1. \A t \in L : t.at < s.at /\ t.at <= s.at /\ ~(s.at < t.at)
  BY TiledBelow
<1> SUFFICES ASSUME NEW x \in L \cup {s}
             PROVE  /\ x.kind # "PadLFH" =>
                         \E h \in L \cup {s} : h.kind = "LFH" /\ h.id = x.id /\ h.at <= x.at
                    /\ x.kind \in {"LFH", "PadLFH"} =>
                         \A t \in L \cup {s} : t.id = x.id /\ t.at < x.at => t.kind = "PadLFH"
  BY DEF Headed
<1>2. CASE x = s
  BY <1>1, <1>2
<1>3. CASE x \in L
  BY <1>1, <1>3 DEF Headed
<1> QED
  BY <1>2, <1>3

\* A frame, a padding frame or a Start-of-Part frame of the open file.
LEMMA AppendInFile ==
  ASSUME NEW L \in SUBSET Structures, NEW end \in Nat, NEW open \in Nat \ {0}, NEW u \in Nat,
         Chain(L, end, open, u, open),
         NEW s \in Structures, s.at = end, s.len > 0, s.id = open, Sized(s),
         s.kind \in {"Frame", "Pad", "SOP"}, s.kind # "Pad" => s.uoff = u
  PROVE  Chain(L \cup {s}, end + s.len, open,
               IF s.kind = "Frame" THEN u + s.ulen ELSE u, open)
<1> DEFINE M == L \cup {s}
           v == IF s.kind = "Frame" THEN u + s.ulen ELSE u
<1>1. Tiled(L, end) /\ Ordered(L, open) /\ Counted(L) /\ TargetsPlaced(L)
      /\ (\A t \in L : Sized(t)) /\ Headed(L) /\ Followed(L, end, open)
      /\ InFile(L, end, open, u)
  BY DEF Chain
<1>2. /\ Reached(L, open, end, u) /\ \E h \in L : h.kind = "LFH" /\ h.id = open
      /\ \A t \in L : t.id = open => t.kind \notin {"DD", "Content"}
  BY <1>1 DEF InFile
<1>3. Tiled(M, end + s.len) /\ Ordered(M, open)
  <2>1. open \in Nat /\ open <= s.id
    OBVIOUS
  <2>2. Ordered(M, s.id)
    BY <1>1, <2>1, OrderedExtends
  <2> QED
    BY <1>1, <2>2, TiledExtends
<1>4. Counted(M) /\ TargetsPlaced(M)
  BY <1>1, <1>2, CountedExtends, TargetsExtend
<1>5. (\A t \in M : Sized(t)) /\ Headed(M)
  BY <1>1, <1>2, HeadedExtends
<1>6. Followed(M, end + s.len, open)
  BY <1>1 DEF Followed, HeaderFollows
<1>7. InFile(M, end + s.len, open, v)
  <2>1. /\ \E h \in M : h.kind = "LFH" /\ h.id = open
        /\ \A t \in M : t.id = open => t.kind \notin {"DD", "Content"}
    BY <1>2
  <2>2. end < end + s.len /\ s.len \in Nat /\ s.ulen \in Nat
        /\ \A t \in L : t.uoff + t.ulen \in Nat
    BY DEF Structures
  <2>3. \A t \in L : t.at < end /\ t.at < end + s.len
    BY <1>1, <2>2, TiledBelow
  <2>4. /\ \A f \in FramesBefore(L, open, end) : f.uoff + f.ulen <= u
        /\ \/ FramesBefore(L, open, end) = {} /\ u = 0
           \/ \E f \in FramesBefore(L, open, end) : f.uoff + f.ulen = u
    BY <1>2 DEF Reached
  <2>5. CASE s.kind = "Frame"
    <3>1. FramesBefore(M, open, end + s.len) = FramesBefore(L, open, end) \cup {s}
      BY <2>2, <2>3, <2>5 DEF FramesBefore
    <3>2. s.uoff + s.ulen = v /\ v = u + s.ulen
      BY <2>5
    <3>3. \A f \in FramesBefore(L, open, end) : f.uoff + f.ulen <= v
      BY <2>2, <2>4, <3>2 DEF FramesBefore
    <3>4. v <= v
      BY <2>2, <3>2
    <3> HIDE DEF v
    <3>5. Reached(M, open, end + s.len, v)
      BY <3>1, <3>2, <3>3, <3>4 DEF Reached
    <3> QED
      BY <2>1, <3>5 DEF InFile
  <2>6. CASE s.kind # "Frame"
    <3>1. FramesBefore(M, open, end + s.len) = FramesBefore(L, open, end)
      BY <2>2, <2>3, <2>6 DEF FramesBefore
    <3>2. Reached(M, open, end + s.len, v)
      BY <2>4, <2>6, <3>1 DEF Reached
    <3> QED
      BY <2>1, <3>2 DEF InFile
  <2> QED
    BY <2>5, <2>6
<1> QED
  BY <1>3, <1>4, <1>5, <1>6, <1>7 DEF Chain

\* The last structure of an entry: its descriptor or its target.
LEMMA AppendLast ==
  ASSUME NEW L \in SUBSET Structures, NEW end \in Nat, NEW open \in Nat \ {0}, NEW u, NEW v,
         Chain(L, end, open, u, open),
         NEW s \in Structures, s.at = end, s.len > 0, s.id = open, Sized(s),
         s.kind \in {"DD", "Content"},
         s.kind = "Content" =>
           /\ s.uoff = 0 /\ s.ulen = s.len
           /\ \E h \in L : h.kind = "LFH" /\ h.id = open /\ h.at + h.len = end
  PROVE  Chain(L \cup {s}, end + s.len, 0, v, open)
<1> DEFINE M == L \cup {s}
<1>1. Tiled(L, end) /\ Ordered(L, open) /\ Counted(L) /\ TargetsPlaced(L)
      /\ (\A t \in L : Sized(t)) /\ Headed(L) /\ Followed(L, end, open)
      /\ InFile(L, end, open, u)
  BY DEF Chain
<1>2. \E h \in L : h.kind = "LFH" /\ h.id = open
  BY <1>1 DEF InFile
<1>3. Tiled(M, end + s.len) /\ Ordered(M, open)
  <2>1. open \in Nat /\ open <= s.id
    OBVIOUS
  <2>2. Ordered(M, s.id)
    BY <1>1, <2>1, OrderedExtends
  <2> QED
    BY <1>1, <2>2, TiledExtends
<1>4. Counted(M) /\ TargetsPlaced(M)
  BY <1>1, CountedExtends, TargetsExtend
<1>5. (\A t \in M : Sized(t)) /\ Headed(M)
  BY <1>1, <1>2, HeadedExtends
<1>6. Followed(M, end + s.len, 0)
  BY <1>1 DEF Followed, HeaderFollows
<1>7. InFile(M, end + s.len, 0, v)
  BY DEF InFile
<1> QED
  BY <1>3, <1>4, <1>5, <1>6, <1>7 DEF Chain

\* A file that is given up, an entry of a header alone, and calls that write
\* nothing.
LEMMA ChainCloses ==
  ASSUME NEW L \in SUBSET Structures, NEW end, NEW open, NEW u, NEW v,
         NEW last \in Nat, NEW next \in Nat, last <= next,
         Chain(L, end, open, u, last)
  PROVE  Chain(L, end, 0, v, next)
<1>1. Followed(L, end, 0)
  BY DEF Chain, Followed
<1>2. Ordered(L, next)
  <2>1. \A t \in L : t.id \in Nat
    BY DEF Structures
  <2> QED
    BY <2>1 DEF Chain, Ordered
<1> QED
  BY <1>1, <1>2 DEF Chain, InFile

(***************************************************************************)
(* The chain the writer builds.                                            *)
(***************************************************************************)
OpenId == IF phase = "file" THEN attempts ELSE 0

ChainInv ==
  /\ Chain(Body(layout), DataEnd, OpenId, cur.total_uncompressed, attempts)
  /\ phase = "file" => attempts # 0
  /\ phase \in {"adding", "file"} => Body(layout) = layout

\* What is written before the directory is data.
LEMMA BodyGrows ==
  ASSUME NEW L, Body(L) = L, NEW N, \A s \in N : s.kind \notin {"CDFH", "End"}
  PROVE  Body(L \cup N) = L \cup N
  BY DEF Body

\* The invariant while entries are added.
LEMMA ChainWhileAdding ==
  ASSUME TypeOK, phase \in {"adding", "file"}
  PROVE  ChainInv <=> /\ Chain(layout, pos, OpenId, cur.total_uncompressed, attempts)
                      /\ phase = "file" => attempts # 0
                      /\ Body(layout) = layout
  BY DEF ChainInv, DataEnd

\* The headers of a new entry.
LEMMA HeadersChain ==
  ASSUME AlignInv, OrderInv, ChainInv, phase = "adding",
         NEW n \in NameLens, NEW needed \in Nat,
         NEW h, h = Structure("LFH", PosAfterPadding(needed), LfhLen(n), attempts + 1, 0, 0)
  PROVE  /\ Chain(layout \cup PaddingLfh(needed) \cup {h}, PosAfterPadding(needed) + LfhLen(n),
                  attempts + 1, 0, attempts + 1)
         /\ Body(layout \cup PaddingLfh(needed) \cup {h}) = layout \cup PaddingLfh(needed) \cup {h}
         /\ layout \cup PaddingLfh(needed) \cup {h} \subseteq Structures
         /\ \A s \in PaddingLfh(needed) \cup {h} :
              s.id = attempts + 1 /\ pos <= s.at /\ s.kind \in {"LFH", "PadLFH"}
<1> DEFINE at == PosAfterPadding(needed)
           l == LfhLen(n)
           id == attempts + 1
           space == SpaceUntilBoundary(pos)
           P == Structure("PadLFH", pos, PaddingLfhLen(space), id, 0, 0)
           L == layout \cup PaddingLfh(needed)
<1>1. /\ TypeOK /\ pos \in Nat /\ attempts \in Nat /\ id \in Nat /\ id # 0 /\ attempts <= id
      /\ layout \in SUBSET Structures
  BY DEF AlignInv, TypeOK
<1>2. at \in Nat /\ pos <= at /\ l \in Nat /\ l >= 46
  BY <1>1, PaddingMovesForward, NameFacts
<1>3. Chain(layout, pos, 0, cur.total_uncompressed, attempts) /\ Body(layout) = layout
  BY <1>1, ChainWhileAdding DEF OpenId
<1>4. \A t \in layout : t.id # id
  <2>1. \A t \in layout : t.id <= attempts
    BY DEF OrderInv, Behind
  <2> QED
    BY <1>1, <2>1
<1>5. /\ h \in Structures /\ h.kind = "LFH" /\ h.at = at /\ h.len = l /\ h.id = id
  <2> HIDE DEF at, l, id
  <2> QED
    BY <1>1, <1>2 DEF Structure, Structures, Kinds, at, l, id
<1>6. PaddingLfhLen(space) \in Nat /\ PaddingLfhLen(space) >= 44
  <2>1. space \in Int
    BY <1>1, SpaceRange
  <2> HIDE DEF space
  <2>2. (space - 44) % 65536 \in Nat
    BY <2>1
  <2> QED
    BY <2>2, Sizes DEF PaddingLfhLen
<1>7. /\ P \in Structures /\ P.kind = "PadLFH" /\ P.at = pos /\ P.id = id
      /\ P.len = PaddingLfhLen(space)
  <2> HIDE DEF id, space
  <2> QED
    BY <1>1, <1>6 DEF Structure, Structures, Kinds, id
<1>8. \/ PaddingLfh(needed) = {} /\ at = pos
      \/ PaddingLfh(needed) = {P} /\ at = pos + P.len
  BY <1>7 DEF PaddingLfh, PosAfterPadding
<1> HIDE DEF at, l, P, space, id
<1>9. /\ L \in SUBSET Structures
      /\ \A t \in L : t.id = id => t.kind = "PadLFH"
      /\ \E u, last : last \in Nat /\ last <= id /\ Chain(L, at, 0, u, last)
  <2>1. CASE PaddingLfh(needed) = {} /\ at = pos
    <3>1. L = layout
      BY <2>1
    <3> QED
      BY <1>1, <1>3, <1>4, <2>1, <3>1
  <2>2. CASE PaddingLfh(needed) = {P} /\ at = pos + P.len
    <3>1. P.len >= 30
      BY <1>6, <1>7
    <3>2. \A t \in layout : t.id = P.id => t.kind = "PadLFH"
      BY <1>4, <1>7
    <3>3. Chain(layout \cup {P}, pos + P.len, IF P.kind = "LFH" THEN P.id ELSE 0, 0, P.id)
      <4>1. Sized(P)
        BY <1>7, <3>1 DEF Sized
      <4> QED
        BY <1>1, <1>3, <1>7, <3>1, <3>2, <4>1, AppendHeader
    <3>4. Chain(layout \cup {P}, at, 0, 0, id) /\ L = layout \cup {P}
      BY <1>7, <2>2, <3>3
    <3>5. id <= id
      BY <1>1
    <3> QED
      BY <1>1, <1>4, <1>7, <3>4, <3>5
  <2> QED
    BY <1>8, <2>1, <2>2
<1> HIDE DEF L
<1>10. Chain(L \cup {h}, at + l, id, 0, id)
  <2>1. PICK u, last : last \in Nat /\ last <= id /\ Chain(L, at, 0, u, last)
    BY <1>9
  <2>2. h.len >= 30 /\ last <= h.id /\ h.id # 0 /\ h.kind \in {"LFH", "PadLFH"}
    BY <1>1, <1>2, <1>5, <2>1
  <2>3. \A t \in L : t.id = h.id => t.kind = "PadLFH"
    BY <1>5, <1>9
  <2>4. Chain(L \cup {h}, at + h.len, IF h.kind = "LFH" THEN h.id ELSE 0, 0, h.id)
    <3>1. Sized(h)
      BY <1>5, <2>2 DEF Sized, l
    <3> QED
      BY <1>2, <1>5, <1>9, <2>1, <2>2, <2>3, <3>1, AppendHeader
  <2> QED
    BY <1>5, <2>4
<1>11. \A s \in PaddingLfh(needed) \cup {h} :
         s.id = id /\ pos <= s.at /\ s.kind \in {"LFH", "PadLFH"} /\ s \in Structures
  <2>1. pos <= pos
    BY <1>1
  <2> QED
    BY <1>2, <1>5, <1>7, <1>8, <2>1
<1>12. L \cup {h} \subseteq Structures
  BY <1>5, <1>9
<1>13. Body(L \cup {h}) = L \cup {h}
  <2>1. PICK N : N = PaddingLfh(needed) \cup {h}
    OBVIOUS
  <2>2. L \cup {h} = layout \cup N /\ \A s \in N : s.kind \notin {"CDFH", "End"}
    BY <1>11, <2>1 DEF L
  <2>3. Body(layout \cup N) = layout \cup N
    BY <1>3, <2>2, BodyGrows
  <2> QED
    BY <2>2, <2>3, Zenon
<1> QED
  BY <1>10, <1>11, <1>12, <1>13 DEF at, l, L, id

\* The three kinds of room asked for before an entry are numbers.
LEMMA NeededForEntry ==
  ASSUME NEW n \in NameLens
  PROVE  /\ SpaceNeeded(LfhLen(n), 0, TRUE) \in Nat
         /\ \A kind : SpaceNeeded(LfhLen(n), 0, kind = "empty") \in Nat
         /\ \A t \in TargetLens : SpaceNeeded(LfhLen(n), t, FALSE) \in Nat
<1>1. LfhLen(n) \in Nat /\ 0 \in Nat /\ \A t \in TargetLens : t \in Nat
  BY NameFacts
<1>2. \A kind : (kind = "empty") \in BOOLEAN
  BY Zenon
<1>3. TRUE \in BOOLEAN /\ FALSE \in BOOLEAN
  BY Zenon
<1> QED
  BY <1>1, <1>2, <1>3, NeededIsNat, Zenon

\* What a step that adds the structures N to the data brings: they lie at or
\* behind the position, belong to the call "id" and are data.
Adds(N, id) ==
  /\ layout' = layout \cup N
  /\ \A s \in N : s.id = id /\ pos <= s.at /\ s.kind \notin {"CDFH", "End"}

\* The start of a file.
LEMMA BeginFileChain ==
  ASSUME AlignInv, OrderInv, ChainInv, NEW n \in NameLens, BeginFile(n)
  PROVE  ChainInv' /\ pos <= pos' /\ \E N : Adds(N, attempts + 1)
<1> DEFINE needed == SpaceNeeded(LfhLen(n), 0, TRUE)
           at == PosAfterPadding(needed)
           h == Structure("LFH", at, LfhLen(n), attempts + 1, 0, 0)
           N == PaddingLfh(needed) \cup {h}
<1>1. /\ phase = "adding" /\ phase' = "file"
      /\ layout' = layout \cup PaddingLfh(needed) \cup {h}
      /\ pos' = at + LfhLen(n)
      /\ cur' = OpenFile(n, at, at + LfhLen(n))
      /\ attempts' = attempts + 1
  BY DEF BeginFile, NextEntry
<1>2. needed \in Nat
  BY NeededForEntry
<1>3. TypeOK /\ attempts \in Nat /\ pos \in Nat
  BY DEF AlignInv, TypeOK
<1>4. at \in Nat /\ pos <= at /\ LfhLen(n) \in Nat
  BY <1>2, <1>3, PaddingMovesForward, NameFacts
<1> HIDE DEF needed
<1>5. /\ Chain(layout', pos', attempts + 1, 0, attempts + 1)
      /\ Body(layout') = layout'
      /\ \A s \in N : s.id = attempts + 1 /\ pos <= s.at /\ s.kind \in {"LFH", "PadLFH"}
  BY <1>1, <1>2, HeadersChain
<1>6. cur'.total_uncompressed = 0
  BY <1>1 DEF OpenFile
<1>7. attempts + 1 # 0
  BY <1>3
<1>8. ChainInv'
  BY <1>1, <1>5, <1>6, <1>7 DEF ChainInv, DataEnd, OpenId
<1>9. Adds(N, attempts + 1)
  <2> HIDE DEF h
  <2>1. layout' = layout \cup N
    BY <1>1
  <2> QED
    BY <1>5, <2>1 DEF Adds
<1>10. pos <= pos'
  <2> HIDE DEF at
  <2> QED
    BY <1>1, <1>3, <1>4
<1> QED
  BY <1>8, <1>9, <1>10

\* Directories and empty files.
LEMMA AddHeaderOnlyChain ==
  ASSUME AlignInv, OrderInv, ChainInv, NEW kind \in {"empty", "dir"}, NEW n \in NameLens,
         AddHeaderOnly(kind, n)
  PROVE  /\ ChainInv' /\ pos <= pos'
         /\ \E N : Adds(N, attempts + 1) /\ \A s \in N : s.kind \in {"LFH", "PadLFH"}
<1> DEFINE needed == SpaceNeeded(LfhLen(n), 0, kind = "empty")
           at == PosAfterPadding(needed)
           h == Structure("LFH", at, LfhLen(n), attempts + 1, 0, 0)
           N == PaddingLfh(needed) \cup {h}
<1>1. /\ phase = "adding" /\ phase' = "adding"
      /\ layout' = layout \cup PaddingLfh(needed) \cup {h}
      /\ pos' = at + LfhLen(n)
      /\ attempts' = attempts + 1
  BY DEF AddHeaderOnly, NextEntry
<1>2. needed \in Nat
  BY NeededForEntry
<1>3. TypeOK /\ attempts \in Nat /\ pos \in Nat
  BY DEF AlignInv, TypeOK
<1>4. at \in Nat /\ pos <= at /\ LfhLen(n) \in Nat
  BY <1>2, <1>3, PaddingMovesForward, NameFacts
<1> HIDE DEF needed
<1>5. /\ Chain(layout', pos', attempts + 1, 0, attempts + 1)
      /\ Body(layout') = layout' /\ layout' \subseteq Structures
      /\ \A s \in N : s.id = attempts + 1 /\ pos <= s.at /\ s.kind \in {"LFH", "PadLFH"}
  BY <1>1, <1>2, HeadersChain
<1>6. attempts + 1 \in Nat /\ attempts + 1 <= attempts + 1
  BY <1>3
<1>7. Chain(layout', pos', 0, cur'.total_uncompressed, attempts + 1)
  BY <1>5, <1>6, ChainCloses
<1>8. ChainInv'
  BY <1>1, <1>5, <1>7 DEF ChainInv, DataEnd, OpenId
<1>9. Adds(N, attempts + 1)
  <2> HIDE DEF h
  <2>1. layout' = layout \cup N
    BY <1>1
  <2> QED
    BY <1>5, <2>1 DEF Adds
<1>10. pos <= pos'
  <2> HIDE DEF at
  <2> QED
    BY <1>1, <1>3, <1>4
<1> QED
  BY <1>5, <1>8, <1>9, <1>10

\* Symlinks: the target is one piece behind the header.
LEMMA AddSymlinkChain ==
  ASSUME AlignInv, OrderInv, ChainInv, NEW n \in NameLens, NEW t \in TargetLens,
         AddSymlink(n, t)
  PROVE  /\ ChainInv' /\ pos <= pos'
         /\ \E N : /\ Adds(N, attempts + 1)
                   /\ \A s \in N : s.kind \in {"LFH", "PadLFH", "Content"}
                   /\ \E c \in N : c.kind = "Content" /\ c.len = t
<1> DEFINE needed == SpaceNeeded(LfhLen(n), t, FALSE)
           at == PosAfterPadding(needed)
           l == LfhLen(n)
           h == Structure("LFH", at, l, attempts + 1, 0, 0)
           c == Structure("Content", at + l, t, attempts + 1, 0, t)
           L == layout \cup PaddingLfh(needed) \cup {h}
           N == PaddingLfh(needed) \cup {h} \cup {c}
<1>1. /\ phase = "adding" /\ phase' = "adding"
      /\ layout' = layout \cup PaddingLfh(needed) \cup {h, c}
      /\ pos' = at + l + t
      /\ attempts' = attempts + 1
  BY DEF AddSymlink, NextEntry
<1>2. needed \in Nat
  BY NeededForEntry
<1>3. TypeOK /\ attempts \in Nat /\ pos \in Nat
  BY DEF AlignInv, TypeOK
<1>4. at \in Nat /\ pos <= at /\ l \in Nat /\ t \in Nat /\ t > 0
  BY <1>2, <1>3, PaddingMovesForward, NameFacts
<1> HIDE DEF needed
<1>5. /\ Chain(L, at + l, attempts + 1, 0, attempts + 1)
      /\ Body(L) = L /\ L \subseteq Structures
      /\ \A s \in PaddingLfh(needed) \cup {h} :
           s.id = attempts + 1 /\ pos <= s.at /\ s.kind \in {"LFH", "PadLFH"}
  BY <1>1, <1>2, HeadersChain
<1>6. h.kind = "LFH" /\ h.id = attempts + 1 /\ h.at = at /\ h.len = l /\ h \in L
  BY DEF Structure
<1> HIDE DEF at, l
<1>7. /\ c \in Structures /\ c.kind = "Content" /\ c.at = at + l /\ c.len = t
      /\ c.id = attempts + 1 /\ c.uoff = 0 /\ c.ulen = t
  BY <1>3, <1>4 DEF Structure, Structures, Kinds
<1> HIDE DEF c, h
<1>8. /\ attempts + 1 \in Nat \ {0} /\ at + l \in Nat /\ pos <= at + l /\ pos <= pos'
      /\ at + l + t = (at + l) + c.len
  BY <1>1, <1>3, <1>4, <1>7
<1>9. layout' = L \cup {c} /\ layout' = layout \cup N
  BY <1>1
<1> HIDE DEF L
<1>10. Sized(c)
  BY <1>7 DEF Sized
<1>11. Chain(L \cup {c}, (at + l) + c.len, 0, cur'.total_uncompressed, attempts + 1)
  BY <1>4, <1>5, <1>6, <1>7, <1>8, <1>10, AppendLast
<1>12. Body(layout') = layout'
  BY <1>5, <1>7, <1>9, BodyGrows
<1>13. ChainInv'
  BY <1>1, <1>8, <1>9, <1>11, <1>12 DEF ChainInv, DataEnd, OpenId
<1>14. Adds(N, attempts + 1)
  BY <1>5, <1>7, <1>8, <1>9 DEF Adds
<1> QED
  BY <1>5, <1>7, <1>8, <1>13, <1>14

\* The next boundary, and the space before it.
LEMMA NextBoundary ==
  ASSUME NEW end \in Nat
  PROVE  /\ alignment_next_boundary(end) \in Nat
         /\ alignment_next_boundary(end) = end + SpaceUntilBoundary(end)
<1>1. end \div PART_SIZE \in Nat
  BY QuotientBrackets
<1>2. PICK k \in Nat : k = end \div PART_SIZE
  BY <1>1
<1>3. (k + 1) * PART_SIZE \in Nat
  BY <1>2, FormatAssumption
<1>4. alignment_next_boundary(end) \in Nat
  BY <1>2, <1>3 DEF alignment_next_boundary
<1> QED
  BY <1>4 DEF SpaceUntilBoundary

LEMMA PaddingPlaced ==
  ASSUME NEW end \in Nat, SpaceUntilBoundary(end) >= 8, NEW open \in Nat, NEW u \in Nat,
         NEW b \in Nat, b = alignment_next_boundary(end),
         NEW pad, pad = PaddingFrame(end, open), NEW S, S = StartOfPart(b, open, u)
  PROVE  /\ pad \in Structures /\ pad.id = open /\ end <= pad.at /\ pad.kind = "Pad"
         /\ S \in Structures /\ S.id = open /\ end <= S.at /\ S.kind = "SOP"
<1>1. pad \in Structures /\ pad.id = open /\ pad.at = end /\ pad.kind = "Pad"
  BY PaddingFills
<1>2. S \in Structures /\ S.id = open /\ S.at = b /\ S.kind = "SOP"
  BY Sizes DEF StartOfPart, Structure, Structures, Kinds
<1>3. end <= end /\ end <= b
  BY NextBoundary, SpaceRange
<1> QED
  BY <1>1, <1>2, <1>3

\* A padding frame and the Start-of-Part frame behind it.
LEMMA PaddingChain ==
  ASSUME NEW L \in SUBSET Structures, NEW end \in Nat, NEW open \in Nat \ {0}, NEW u \in Nat,
         Chain(L, end, open, u, open), SpaceUntilBoundary(end) >= 8,
         NEW b \in Nat, b = alignment_next_boundary(end),
         NEW pad, pad = PaddingFrame(end, open), NEW S, S = StartOfPart(b, open, u)
  PROVE  Chain((L \cup {pad}) \cup {S}, b + 24, open, u, open)
<1>1. /\ pad \in Structures /\ pad.kind = "Pad" /\ pad.at = end /\ pad.id = open
      /\ pad.len = SpaceUntilBoundary(end)
  BY PaddingFills
<1>2. pad.len \in Nat /\ pad.len > 0 /\ b \in Nat /\ b = end + pad.len /\ end <= b
  <2>1. pad.len \in Nat
    BY <1>1 DEF Structures
  <2>2. b \in Nat /\ b = end + pad.len
    BY <1>1, <2>1, NextBoundary
  <2> QED
    BY <1>1, <2>1, <2>2
<1>3. SpaceUntilBoundary(b) = PART_SIZE
  BY <1>1, <1>2, SpaceRefills
<1>4. /\ S \in Structures /\ S.kind = "SOP" /\ S.at = b /\ S.len = 24
      /\ S.id = open /\ S.uoff = u
  BY <1>2, Sizes DEF StartOfPart, Structure, Structures, Kinds
<1>5. Chain(L \cup {pad}, b, open, u, open)
  <2>1. Sized(pad)
    BY <1>1 DEF Sized
  <2>2. Chain(L \cup {pad}, end + pad.len, open,
              IF pad.kind = "Frame" THEN u + pad.ulen ELSE u, open)
    BY <1>1, <1>2, <2>1, AppendInFile
  <2> QED
    BY <1>1, <1>2, <2>2
<1>6. Chain((L \cup {pad}) \cup {S}, b + 24, open, u, open)
  <2>1. Sized(S) /\ S.len > 0
    BY <1>3, <1>4 DEF Sized
  <2>2. PICK M : M = L \cup {pad}
    OBVIOUS
  <2>3. M \in SUBSET Structures /\ Chain(M, b, open, u, open)
    BY <1>1, <1>5, <2>2
  <2>4. Chain(M \cup {S}, b + S.len, open, IF S.kind = "Frame" THEN u + S.ulen ELSE u, open)
    BY <1>2, <1>4, <2>1, <2>3, AppendInFile
  <2>5. Chain(M \cup {S}, b + 24, open, u, open)
    BY <1>4, <2>4
  <2> QED
    BY <2>2, <2>5
<1> QED
  BY <1>6

\* One iteration of the read loop.
LEMMA WriteFrameChain ==
  ASSUME AlignInv, OrderInv, ChainInv, NEW r \in ReadSizes, NEW f \in FrameSizes,
         WriteFrame(r, f)
  PROVE  ChainInv' /\ pos <= pos' /\ \E N : Adds(N, attempts)
<1> DEFINE action == alignment_decide(pos, f, r < ZSTD_CHUNK_SIZE)
           done == cur.total_uncompressed
           pad == PaddingFrame(pos, attempts)
           next == pos + pad.len
           space == SpaceUntilBoundary(pos)
           FrameAt(at) == Structure("Frame", at, f, attempts, done, r)
<1>1. f \in Nat /\ f > 0 /\ r \in Nat
  BY FrameFacts
<1>2. /\ pos \in Nat /\ attempts \in Nat /\ done \in Nat /\ space >= 8 /\ space \in Nat
      /\ TypeOK /\ phase = "file" /\ phase' = "file" /\ attempts' = attempts
      /\ layout \in SUBSET Structures /\ cur \in OpenFiles
  <2>1. phase = "file" /\ phase' = "file" /\ attempts' = attempts
    BY DEF WriteFrame
  <2>2. TypeOK
    BY DEF AlignInv
  <2>3. /\ pos \in Nat /\ attempts \in Nat /\ layout \in SUBSET Structures /\ cur \in OpenFiles
    BY <2>2 DEF TypeOK
  <2>4. done \in Nat
    BY <2>3 DEF OpenFiles
  <2>5. space \in Nat
    BY <2>3, SpaceRange
  <2>6. space >= 8
    BY <2>1, Sizes DEF AlignInv, MidFile
  <2> QED
    BY <2>1, <2>2, <2>3, <2>4, <2>5, <2>6
<1>3. /\ Chain(layout, pos, attempts, done, attempts) /\ attempts # 0 /\ Body(layout) = layout
  BY <1>2, ChainWhileAdding DEF OpenId
<1>4. UncompressedBefore(done + r, r) = done
  <2> HIDE DEF done
  <2> QED
    BY <1>1, <1>2 DEF UncompressedBefore
<1>5. cur'.total_uncompressed = done + r
  BY <1>2 DEF WriteFrame, OpenFiles
<1>6. action = "WRITE_FRAME_THEN_METADATA" => space = f
  <2> HIDE DEF space
  <2> QED
    BY <1>1, <1>2, Sizes DEF alignment_decide, space
<1>7. \/ /\ layout' = layout \cup {FrameAt(pos)}
         /\ pos' = pos + f
      \/ /\ layout' = layout \cup {FrameAt(pos), StartOfPart(pos + f, attempts, done + r)}
         /\ pos' = pos + f + 24 /\ space = f
      \/ /\ layout' = layout \cup {pad, StartOfPart(next, attempts, done), FrameAt(next + 24)}
         /\ pos' = next + 24 + f
  BY <1>4, <1>6, Sizes DEF WriteFrame
<1> HIDE DEF action
<1>8. \A at \in Nat : /\ FrameAt(at) \in Structures /\ FrameAt(at).kind = "Frame"
                      /\ FrameAt(at).at = at /\ FrameAt(at).len = f
                      /\ FrameAt(at).id = attempts /\ FrameAt(at).uoff = done
                      /\ FrameAt(at).ulen = r
  <2> HIDE DEF done
  <2> QED
    BY <1>1, <1>2 DEF Structure, Structures, Kinds
<1> HIDE DEF FrameAt
<1>9. ASSUME NEW L \in SUBSET Structures, NEW at \in Nat, Chain(L, at, attempts, done, attempts)
      PROVE  Chain(L \cup {FrameAt(at)}, at + f, attempts, done + r, attempts)
  <2> DEFINE F == FrameAt(at)
  <2>1. /\ F \in Structures /\ F.kind = "Frame" /\ F.at = at /\ F.len = f
        /\ F.id = attempts /\ F.uoff = done /\ F.ulen = r
    BY <1>8
  <2> HIDE DEF F, done
  <2>2. Sized(F)
    BY <2>1 DEF Sized
  <2>3. Chain(L \cup {F}, at + F.len, attempts, IF F.kind = "Frame" THEN done + F.ulen ELSE done,
              attempts)
    BY <1>1, <1>2, <1>3, <1>9, <2>1, <2>2, AppendInFile
  <2> QED
    BY <2>1, <2>3 DEF F
<1>10. \E N : /\ Adds(N, attempts) /\ pos <= pos'
              /\ Chain(layout \cup N, pos', attempts, done + r, attempts)
  <2>1. CASE layout' = layout \cup {FrameAt(pos)} /\ pos' = pos + f
    <3>1. Chain(layout \cup {FrameAt(pos)}, pos', attempts, done + r, attempts)
      BY <1>2, <1>3, <1>9, <2>1
    <3>2. pos <= pos' /\ pos <= pos
      BY <1>1, <1>2, <2>1
    <3>3. Adds({FrameAt(pos)}, attempts)
      BY <1>2, <1>8, <2>1, <3>2 DEF Adds
    <3> QED
      BY <3>1, <3>2, <3>3
  <2>2. CASE /\ layout' = layout \cup {FrameAt(pos), StartOfPart(pos + f, attempts, done + r)}
             /\ pos' = pos + f + 24 /\ space = f
    <3> DEFINE F == FrameAt(pos)
               S == StartOfPart(pos + f, attempts, done + r)
    <3>1. /\ F \in Structures /\ F.kind = "Frame" /\ F.at = pos /\ F.id = attempts
      BY <1>2, <1>8
    <3>2. Chain(layout \cup {F}, pos + f, attempts, done + r, attempts)
      BY <1>2, <1>3, <1>9
    <3>3. pos + f \in Nat /\ done + r \in Nat /\ pos <= pos + f /\ pos <= pos /\ pos <= pos'
      <4> HIDE DEF done
      <4> QED
        BY <1>1, <1>2, <2>2
    <3>4. /\ S \in Structures /\ S.kind = "SOP" /\ S.at = pos + f /\ S.len = 24
          /\ S.id = attempts /\ S.uoff = done + r
      <4>1. PICK b \in Nat, v \in Nat : b = pos + f /\ v = done + r
        BY <3>3
      <4>2. S = StartOfPart(b, attempts, v)
        BY <4>1
      <4> HIDE DEF done, S
      <4>3. /\ S \in Structures /\ S.kind = "SOP" /\ S.at = b /\ S.len = 24
            /\ S.id = attempts /\ S.uoff = v
        BY <1>2, <4>2, Sizes DEF StartOfPart, Structure, Structures, Kinds
      <4> QED
        BY <4>1, <4>3
    <3>5. SpaceUntilBoundary(pos + f) = PART_SIZE
      BY <1>2, <2>2, SpaceRefills
    <3> HIDE DEF F, S, done
    <3>6. Sized(S) /\ S.len > 0
      BY <3>4, <3>5 DEF Sized
    <3>7. Chain((layout \cup {F}) \cup {S}, pos + f + 24, attempts, done + r, attempts)
      <4>1. layout \cup {F} \in SUBSET Structures
        BY <1>2, <3>1
      <4>2. Chain((layout \cup {F}) \cup {S}, (pos + f) + S.len, attempts,
                  IF S.kind = "Frame" THEN done + r + S.ulen ELSE done + r, attempts)
        BY <1>2, <1>3, <3>2, <3>3, <3>4, <3>6, <4>1, AppendInFile
      <4> QED
        BY <3>4, <4>2
    <3>8. (layout \cup {F}) \cup {S} = layout \cup {F, S} /\ layout' = layout \cup {F, S}
      BY <2>2 DEF F, S
    <3>9. Adds({F, S}, attempts)
      BY <3>1, <3>3, <3>4, <3>8 DEF Adds
    <3> QED
      BY <2>2, <3>3, <3>7, <3>8, <3>9
  <2>3. CASE /\ layout' = layout \cup {pad, StartOfPart(next, attempts, done), FrameAt(next + 24)}
             /\ pos' = next + 24 + f
    <3> DEFINE S == StartOfPart(next, attempts, done)
               L == layout \cup {pad, S}
    <3>0. PICK b, N : b = next /\ N = {pad, S}
      OBVIOUS
    <3>1. /\ Chain(L, b + 24, attempts, done, attempts)
          /\ L \in SUBSET Structures /\ b \in Nat /\ pos <= b
          /\ \A s \in N : s.id = attempts /\ pos <= s.at /\ s.kind \in {"Pad", "SOP"}
      <4>1. PICK d \in Nat, a \in Nat \ {0} : d = done /\ a = attempts
        BY <1>2, <1>3
      <4>2. PICK P, T : P = PaddingFrame(pos, a) /\ T = StartOfPart(b, a, d)
        OBVIOUS
      <4>3. /\ Chain(layout, pos, a, d, a) /\ b = pos + P.len /\ N = {P, T}
        BY <1>3, <3>0, <4>1, <4>2
      <4>6. b = alignment_next_boundary(pos) /\ b \in Nat
        BY <1>2, <4>1, <4>2, <4>3, PaddingFills, NextBoundary
      <4>4. /\ Chain((layout \cup {P}) \cup {T}, b + 24, a, d, a) /\ pos <= b
            /\ P \in Structures /\ P.id = a /\ pos <= P.at /\ P.kind = "Pad"
            /\ T \in Structures /\ T.id = a /\ pos <= T.at /\ T.kind = "SOP"
        <5>1. Chain((layout \cup {P}) \cup {T}, b + 24, a, d, a)
          BY <1>2, <4>1, <4>2, <4>3, <4>6, PaddingChain
        <5>2. pos <= b
          BY <1>2, <4>6, NextBoundary
        <5>3. /\ P \in Structures /\ P.id = a /\ pos <= P.at /\ P.kind = "Pad"
              /\ T \in Structures /\ T.id = a /\ pos <= T.at /\ T.kind = "SOP"
          BY <1>2, <4>1, <4>2, <4>6, PaddingPlaced
        <5> QED
          BY <5>1, <5>2, <5>3
      <4>5. L = (layout \cup {P}) \cup {T}
        BY <3>0, <4>3
      <4> HIDE DEF L, done
      <4> QED
        BY <1>2, <4>1, <4>3, <4>4, <4>5, <4>6
    <3>2. b + 24 \in Nat /\ pos <= b + 24 /\ pos <= pos' /\ pos' = b + 24 + f
      <4> HIDE DEF next
      <4> QED
        BY <1>1, <1>2, <2>3, <3>0, <3>1
    <3>3. PICK G : G = FrameAt(b + 24)
      OBVIOUS
    <3>4. G.kind = "Frame" /\ G.at = b + 24 /\ G.id = attempts
      BY <1>8, <3>2, <3>3
    <3>5. Chain(L \cup {G}, b + 24 + f, attempts, done + r, attempts)
      BY <1>9, <3>1, <3>2, <3>3
    <3>6. L \cup {G} = layout \cup (N \cup {G}) /\ layout' = layout \cup (N \cup {G})
      <4>1. layout' = layout \cup {pad, S, G}
        BY <2>3, <3>0, <3>3
      <4> HIDE DEF pad, S
      <4> QED
        BY <3>0, <4>1
    <3> HIDE DEF L, S, pad, next, done
    <3>7. Adds(N \cup {G}, attempts)
      BY <3>1, <3>2, <3>4, <3>6 DEF Adds
    <3> QED
      BY <3>2, <3>5, <3>6, <3>7
  <2> QED
    BY <1>7, <2>1, <2>2, <2>3
<1>11. PICK N : /\ Adds(N, attempts) /\ pos <= pos'
                /\ Chain(layout \cup N, pos', attempts, done + r, attempts)
  BY <1>10
<1>12. Body(layout') = layout' /\ layout' = layout \cup N
  BY <1>3, <1>11, BodyGrows DEF Adds
<1>13. ChainInv'
  BY <1>2, <1>3, <1>5, <1>11, <1>12 DEF ChainInv, DataEnd, OpenId
<1> QED
  BY <1>11, <1>13

\* The end of a file.
LEMMA EndFileChain ==
  ASSUME AlignInv, OrderInv, ChainInv, EndFile
  PROVE  /\ ChainInv' /\ pos <= pos'
         /\ \E N : /\ Adds(N, attempts)
                   /\ \A s \in N :
                        /\ s.kind \in {"Pad", "SOP", "DD"}
                        /\ s.kind = "DD" =>
                             s.len = DescriptorSize(pos - cur.compressed_start_offset,
                                                    cur.total_uncompressed)
<1> DEFINE csize == pos - cur.compressed_start_offset
           usize == cur.total_uncompressed
           dsize == DescriptorSize(csize, usize)
           pads == NeedsTrailingPadding(SpaceUntilBoundary(pos), dsize)
           pad == PaddingFrame(pos, attempts)
           at == IF pads THEN pos + pad.len + START_OF_PART_SIZE ELSE pos
           S == StartOfPart(pos + pad.len, attempts, usize)
           D == Structure("DD", at, dsize, attempts, 0, 0)
           P == IF pads THEN {pad, S} ELSE {}
<1>1. /\ phase = "file" /\ phase' = "adding" /\ attempts' = attempts
      /\ layout' = layout \cup P \cup {D}
      /\ pos' = at + dsize
  BY DEF EndFile
<1>2. /\ pos \in Nat /\ attempts \in Nat /\ usize \in Nat /\ TypeOK
      /\ SpaceUntilBoundary(pos) >= 8 /\ layout \in SUBSET Structures
  BY <1>1, Sizes DEF AlignInv, TypeOK, OpenFiles, MidFile
<1>3. Chain(layout, pos, attempts, usize, attempts) /\ attempts # 0 /\ Body(layout) = layout
  BY <1>1, <1>2, ChainWhileAdding DEF OpenId
<1>4. dsize \in Nat /\ dsize >= 16
  BY Sizes DEF DescriptorSize
<1> HIDE DEF dsize, usize
<1>5. /\ Chain(layout \cup P, at, attempts, usize, attempts)
      /\ layout \cup P \in SUBSET Structures /\ at \in Nat /\ pos <= at
      /\ \A s \in P : s.id = attempts /\ pos <= s.at /\ s.kind \in {"Pad", "SOP"}
  <2>1. CASE pads
    <3>1. PICK b, N, d, a : b = pos + pad.len /\ N = {pad, S} /\ d = usize /\ a = attempts
      OBVIOUS
    <3>2. d \in Nat /\ a \in Nat \ {0}
      BY <1>2, <1>3, <3>1
    <3>3. /\ Chain(layout \cup N, b + 24, a, d, a)
          /\ layout \cup N \in SUBSET Structures /\ b \in Nat /\ pos <= b
          /\ \A s \in N : s.id = a /\ pos <= s.at /\ s.kind \in {"Pad", "SOP"}
      <4>1. PICK F, T : F = PaddingFrame(pos, a) /\ T = StartOfPart(b, a, d)
        OBVIOUS
      <4>2. /\ Chain(layout, pos, a, d, a) /\ b = pos + F.len /\ N = {F, T}
        BY <1>3, <3>1, <4>1
      <4>5. b = alignment_next_boundary(pos) /\ b \in Nat
        BY <1>2, <3>2, <4>1, <4>2, PaddingFills, NextBoundary
      <4>3. /\ Chain((layout \cup {F}) \cup {T}, b + 24, a, d, a) /\ pos <= b
            /\ F \in Structures /\ F.id = a /\ pos <= F.at /\ F.kind = "Pad"
            /\ T \in Structures /\ T.id = a /\ pos <= T.at /\ T.kind = "SOP"
        <5>1. Chain((layout \cup {F}) \cup {T}, b + 24, a, d, a)
          BY <1>2, <3>2, <4>1, <4>2, <4>5, PaddingChain
        <5>2. pos <= b
          BY <1>2, <4>5, NextBoundary, SpaceRange
        <5>3. /\ F \in Structures /\ F.id = a /\ pos <= F.at /\ F.kind = "Pad"
              /\ T \in Structures /\ T.id = a /\ pos <= T.at /\ T.kind = "SOP"
          BY <1>2, <3>2, <4>1, <4>5, PaddingPlaced
        <5> QED
          BY <5>1, <5>2, <5>3
      <4>4. layout \cup N = (layout \cup {F}) \cup {T}
        BY <4>2
      <4> QED
        BY <1>2, <4>2, <4>3, <4>4, <4>5
    <3>4. P = N /\ at = b + 24
      BY <2>1, <3>1, Sizes
    <3> HIDE DEF pad, S, P, at
    <3>5. at \in Nat /\ pos <= at
      BY <1>2, <3>3, <3>4
    <3> QED
      BY <3>1, <3>3, <3>4, <3>5
  <2>2. CASE ~pads
    <3>1. P = {} /\ at = pos /\ layout \cup P = layout /\ pos <= pos
      BY <1>2, <2>2
    <3> HIDE DEF P, at, pads
    <3> QED
      BY <1>2, <1>3, <3>1
  <2> QED
    BY <2>1, <2>2
<1> HIDE DEF P, at, pads, pad, S
<1>6. D \in Structures /\ D.kind = "DD" /\ D.at = at /\ D.len = dsize /\ D.id = attempts
  BY <1>2, <1>4, <1>5 DEF Structure, Structures, Kinds
<1> HIDE DEF D
<1>7. Sized(D) /\ D.len > 0 /\ pos <= pos'
  <2>1. D.len > 0 /\ pos <= pos'
    BY <1>1, <1>2, <1>4, <1>5, <1>6
  <2> QED
    BY <1>4, <1>6, <2>1 DEF Sized
<1>8. Chain((layout \cup P) \cup {D}, at + D.len, 0, cur'.total_uncompressed, attempts)
  BY <1>2, <1>3, <1>5, <1>6, <1>7, AppendLast
<1>9. layout' = layout \cup (P \cup {D}) /\ (layout \cup P) \cup {D} = layout'
  BY <1>1
<1>10. \A s \in P \cup {D} : /\ s.id = attempts /\ pos <= s.at
                             /\ s.kind \in {"Pad", "SOP", "DD"}
                             /\ s.kind = "DD" => s.len = dsize
  BY <1>5, <1>6
<1>11. Body(layout') = layout'
  <2>1. PICK N : N = P \cup {D}
    OBVIOUS
  <2>2. layout' = layout \cup N /\ \A s \in N : s.kind \notin {"CDFH", "End"}
    BY <1>9, <1>10, <2>1
  <2> QED
    BY <1>3, <2>2, BodyGrows
<1>12. ChainInv'
  BY <1>1, <1>6, <1>8, <1>9, <1>11 DEF ChainInv, DataEnd, OpenId
<1>13. Adds(P \cup {D}, attempts)
  BY <1>9, <1>10 DEF Adds
<1> QED
  BY <1>7, <1>10, <1>12, <1>13 DEF dsize, csize, usize

(***************************************************************************)
(* The entries of the directory and the structures around them.            *)
(***************************************************************************)

\* Where the data of an entry ends, behind which its trailing padding, its
\* descriptor and the next entries lie.
EntryEnd(e) == e.local_header_offset + LfhLen(e.name_len) + e.compressed_size

\* What belongs to an entry fits its kind; later entries lie behind it.
Kept(e, L, end) ==
  /\ EntryEnd(e) <= end
  /\ \A t \in L : t.id > e.id => t.at >= EntryEnd(e)
  /\ \A t \in L : t.id = e.id =>
       /\ t.kind \in {"Frame", "SOP", "DD"} => e.kind = "file"
       /\ t.kind = "Content" => e.kind = "symlink"
       /\ t.kind = "DD" => t.len = DescriptorSize(e.compressed_size, e.uncompressed_size)
  /\ e.kind = "symlink" =>
       \E c \in L : c.kind = "Content" /\ c.id = e.id /\ c.len = e.uncompressed_size

EntriesKept ==
  \A i \in 1..Len(files) :
    /\ Kept(files[i], Body(layout), DataEnd)
    /\ \A j \in 1..Len(files) : i < j => files[i].id < files[j].id

\* The directory lies behind the data, and its first header where the data
\* ends.
DirectoryBehind ==
  /\ phase \in {"cd", "done"} =>
       /\ files # <<>> /\ central_dir_start <= pos
       /\ \A s \in layout : s \in Body(layout) \/ s.at >= central_dir_start
       /\ next_cdfh > 1 => \E s \in layout : s.kind = "CDFH" /\ s.at = central_dir_start
       /\ next_cdfh = 1 => pos = central_dir_start
       /\ ~SomeFileAborted => SpaceUntilBoundary(central_dir_start) >= PADDING_LFH_MIN_SIZE
  /\ phase = "done" => next_cdfh > Len(files) /\ pos >= central_dir_start + 106

TileInv == ChainInv /\ EntriesKept /\ DirectoryBehind

\* What is written later does not touch an entry.
LEMMA KeptStill ==
  ASSUME NEW e \in FileEntries, NEW L \in SUBSET Structures, NEW end \in Nat, NEW next \in Nat,
         end <= next, Kept(e, L, end), NEW N,
         \A s \in N : s.at >= end /\ s.at \in Nat /\ s.id # e.id
  PROVE  Kept(e, L \cup N, next)
<1>1. EntryEnd(e) \in Nat
  BY DEF EntryEnd, FileEntries, LfhLen
<1>2. EntryEnd(e) <= end
  BY DEF Kept
<1>3. EntryEnd(e) <= next /\ \A s \in N : s.at >= EntryEnd(e)
  BY <1>1, <1>2
<1> QED
  BY <1>3 DEF Kept

\* Entries while their successors are added.
LEMMA OldEntriesKept ==
  ASSUME AlignInv, EntriesKept, ChainInv, phase \in {"adding", "file"},
         NEW N, NEW id \in Nat, Adds(N, id), \A i \in 1..Len(files) : files[i].id < id,
         pos <= pos', TypeOK', phase' \in {"adding", "file"}, ChainInv'
  PROVE  /\ Body(layout)' = layout \cup N /\ DataEnd' = pos'
         /\ \A i \in 1..Len(files) :
              /\ Kept(files[i], Body(layout)', DataEnd')
              /\ \A j \in 1..Len(files) : i < j => files[i].id < files[j].id
<1>1. /\ pos \in Nat /\ pos' \in Nat /\ layout \in SUBSET Structures
      /\ layout' \in SUBSET Structures /\ files \in Seq(FileEntries)
  BY DEF AlignInv, TypeOK
<1>2. Body(layout) = layout /\ DataEnd = pos /\ layout' = layout \cup N
  BY DEF ChainInv, DataEnd, Adds
<1>3. Body(layout)' = layout \cup N /\ DataEnd' = pos'
  BY <1>2 DEF ChainInv, DataEnd
<1>4. ASSUME NEW i \in 1..Len(files)
      PROVE  Kept(files[i], layout \cup N, pos')
  <2>1. Kept(files[i], layout, pos)
    BY <1>2 DEF EntriesKept
  <2>2. PICK e \in FileEntries : e = files[i]
    BY <1>1
  <2>3. \A s \in N : s.at >= pos /\ s.at \in Nat /\ s.id # e.id
    <3>1. e.id < id /\ e.id \in Nat
      BY <2>2 DEF FileEntries
    <3>2. \A s \in N : s.id = id /\ pos <= s.at /\ s.at \in Nat
      BY <1>1, <1>2 DEF Adds, Structures
    <3> QED
      BY <1>1, <3>1, <3>2
  <2>4. Kept(e, layout, pos)
    BY <2>1, <2>2
  <2>5. Kept(e, layout \cup N, pos')
    BY <1>1, <2>2, <2>3, <2>4, KeptStill
  <2> QED
    BY <2>2, <2>5
<1> QED
  BY <1>3, <1>4 DEF EntriesKept

\* Entries while a file is open or an entry fails.
LEMMA SameEntriesKept ==
  ASSUME AlignInv, EntriesKept, ChainInv, phase \in {"adding", "file"},
         NEW N, NEW id \in Nat, Adds(N, id), \A i \in 1..Len(files) : files[i].id < id,
         pos <= pos', TypeOK', phase' \in {"adding", "file"}, ChainInv', files' = files
  PROVE  EntriesKept'
<1>1. /\ \A i \in 1..Len(files) :
           /\ Kept(files[i], Body(layout)', DataEnd')
           /\ \A j \in 1..Len(files) : i < j => files[i].id < files[j].id
  BY OldEntriesKept
<1> QED
  BY <1>1, Zenon DEF EntriesKept

\* Entries when one more is complete.
LEMMA NewEntryKept ==
  ASSUME AlignInv, EntriesKept, ChainInv, phase \in {"adding", "file"},
         NEW N, NEW id \in Nat, Adds(N, id), \A i \in 1..Len(files) : files[i].id < id,
         pos <= pos', TypeOK', phase' \in {"adding", "file"}, ChainInv',
         NEW e \in FileEntries, e.id = id, files' = Append(files, e),
         Kept(e, layout \cup N, pos')
  PROVE  EntriesKept'
<1>1. /\ Body(layout)' = layout \cup N /\ DataEnd' = pos'
      /\ \A i \in 1..Len(files) :
           /\ Kept(files[i], Body(layout)', DataEnd')
           /\ \A j \in 1..Len(files) : i < j => files[i].id < files[j].id
  BY OldEntriesKept
<1>2. files \in Seq(FileEntries) /\ Len(files) \in Nat
  BY DEF AlignInv, TypeOK
<1>3. /\ Len(files') = Len(files) + 1 /\ files'[Len(files) + 1] = e
      /\ \A i \in 1..Len(files) : files'[i] = files[i]
  BY <1>2
<1>4. \A i \in 1..Len(files') : i \in 1..Len(files) \/ i = Len(files) + 1
  BY <1>2, <1>3
<1>5. Kept(e, Body(layout)', DataEnd')
  BY <1>1
<1>6. \A i \in 1..Len(files') : Kept(files'[i], Body(layout)', DataEnd')
  BY <1>1, <1>3, <1>4, <1>5
<1>7. ASSUME NEW i \in 1..Len(files'), NEW j \in 1..Len(files'), i < j
      PROVE  files'[i].id < files'[j].id
  <2>1. i \in 1..Len(files)
    BY <1>2, <1>3, <1>7
  <2>2. CASE j \in 1..Len(files)
    BY <1>1, <1>3, <1>7, <2>1, <2>2
  <2>3. CASE j = Len(files) + 1
    BY <1>3, <2>1, <2>3
  <2> QED
    BY <1>4, <2>2, <2>3
<1> QED
  BY <1>6, <1>7 DEF EntriesKept

\* Every entry so far has a smaller id than what the next call writes.
LEMMA EntriesBeforeNext ==
  ASSUME AlignInv, OrderInv
  PROVE  /\ attempts + 1 \in Nat /\ \A i \in 1..Len(files) : files[i].id < attempts + 1
         /\ phase = "file" => \A i \in 1..Len(files) : files[i].id < attempts
         /\ \A s \in layout : s.id <= attempts
<1>1. attempts \in Nat /\ \A i \in 1..Len(files) : files[i].id \in Nat
  <2>1. attempts \in Nat /\ files \in Seq(FileEntries)
    BY DEF AlignInv, TypeOK
  <2>2. \A i \in 1..Len(files) : files[i] \in FileEntries
    BY <2>1
  <2> QED
    BY <2>1, <2>2 DEF FileEntries
<1>2. \A i \in 1..Len(files) : files[i].id <= attempts
  BY DEF OrderInv, EntriesBehind
<1> QED
  BY <1>1, <1>2 DEF OrderInv, OpenFileHasHeader, Behind

\* A new entry, when what was written for it fits its kind.
LEMMA LastEntryKept ==
  ASSUME NEW L, NEW N, NEW id \in Nat, \A s \in L : s.id \in Nat /\ s.id < id,
         \A s \in N : s.id = id,
         NEW end \in Nat, NEW e \in FileEntries, e.id = id, EntryEnd(e) <= end,
         \A t \in N : /\ t.kind \in {"Frame", "SOP", "DD"} => e.kind = "file"
                      /\ t.kind = "Content" => e.kind = "symlink"
                      /\ t.kind = "DD" =>
                           t.len = DescriptorSize(e.compressed_size, e.uncompressed_size),
         e.kind = "symlink" => \E c \in N : c.kind = "Content" /\ c.len = e.uncompressed_size
  PROVE  Kept(e, L \cup N, end)
<1>1. \A t \in L : ~(t.id > id) /\ t.id # id
  OBVIOUS
<1>2. \A t \in N : ~(t.id > id)
  OBVIOUS
<1> QED
  BY <1>1, <1>2 DEF Kept

LEMMA AddHeaderOnlyKept ==
  ASSUME AlignInv, OrderInv, ChainInv, EntriesKept, AlignInv',
         NEW kind \in {"empty", "dir"}, NEW n \in NameLens, AddHeaderOnly(kind, n)
  PROVE  ChainInv' /\ EntriesKept'
<1> DEFINE at == PosAfterPadding(SpaceNeeded(LfhLen(n), 0, kind = "empty"))
           id == attempts + 1
           e == FileEntry(id, kind, n, at, 0, 0)
<1>1. /\ phase = "adding" /\ phase' = "adding" /\ pos' = at + LfhLen(n)
      /\ files' = Append(files, e)
  BY DEF AddHeaderOnly, NextEntry
<1>2. /\ TypeOK /\ TypeOK' /\ pos' \in Nat /\ layout \subseteq Structures
  BY DEF AlignInv, TypeOK
<1>3. ChainInv' /\ pos <= pos'
  BY AddHeaderOnlyChain
<1>4. PICK N : Adds(N, id) /\ \A s \in N : s.kind \in {"LFH", "PadLFH"}
  BY AddHeaderOnlyChain
<1>5. /\ id \in Nat /\ \A i \in 1..Len(files) : files[i].id < id
      /\ \A s \in layout : s.id \in Nat /\ s.id < id
  <2>1. attempts \in Nat /\ \A s \in layout : s.id \in Nat
    BY <1>2 DEF TypeOK, Structures
  <2> QED
    BY <2>1, EntriesBeforeNext
<1>6. at \in Nat /\ LfhLen(n) \in Nat /\ n \in Nat
  BY <1>2, NeededForEntry, PaddingMovesForward, NameFacts
<1> HIDE DEF at, id
<1>7. /\ e \in FileEntries /\ e.id = id /\ e.kind = kind /\ e.name_len = n
      /\ e.local_header_offset = at /\ e.compressed_size = 0
  BY <1>5, <1>6 DEF FileEntry, FileEntries, EntryKinds
<1> HIDE DEF e
<1>8. EntryEnd(e) <= pos'
  BY <1>1, <1>6, <1>7 DEF EntryEnd
<1>9. Kept(e, layout \cup N, pos')
  <2>1. \A s \in N : s.id = id
    BY <1>4 DEF Adds
  <2> QED
    BY <1>2, <1>4, <1>5, <1>7, <1>8, <2>1, LastEntryKept
<1>10. EntriesKept'
  BY <1>1, <1>2, <1>3, <1>4, <1>5, <1>7, <1>9, NewEntryKept
<1> QED
  BY <1>3, <1>10

LEMMA AddSymlinkKept ==
  ASSUME AlignInv, OrderInv, ChainInv, EntriesKept, AlignInv',
         NEW n \in NameLens, NEW t \in TargetLens, AddSymlink(n, t)
  PROVE  ChainInv' /\ EntriesKept'
<1> DEFINE at == PosAfterPadding(SpaceNeeded(LfhLen(n), t, FALSE))
           id == attempts + 1
           e == FileEntry(id, "symlink", n, at, t, t)
<1>1. /\ phase = "adding" /\ phase' = "adding" /\ pos' = at + LfhLen(n) + t
      /\ files' = Append(files, e)
  BY DEF AddSymlink, NextEntry
<1>2. /\ TypeOK /\ TypeOK' /\ pos' \in Nat /\ layout \subseteq Structures
  BY DEF AlignInv, TypeOK
<1>3. ChainInv' /\ pos <= pos'
  BY AddSymlinkChain
<1>4. PICK N : /\ Adds(N, id)
               /\ \A s \in N : s.kind \in {"LFH", "PadLFH", "Content"}
               /\ \E c \in N : c.kind = "Content" /\ c.len = t
  BY AddSymlinkChain
<1>5. /\ id \in Nat /\ \A i \in 1..Len(files) : files[i].id < id
      /\ \A s \in layout : s.id \in Nat /\ s.id < id
  <2>1. attempts \in Nat /\ \A s \in layout : s.id \in Nat
    BY <1>2 DEF TypeOK, Structures
  <2> QED
    BY <2>1, EntriesBeforeNext
<1>6. at \in Nat /\ LfhLen(n) \in Nat /\ n \in Nat /\ t \in Nat
  BY <1>2, NeededForEntry, PaddingMovesForward, NameFacts
<1> HIDE DEF at, id
<1>7. /\ e \in FileEntries /\ e.id = id /\ e.kind = "symlink" /\ e.name_len = n
      /\ e.local_header_offset = at /\ e.compressed_size = t /\ e.uncompressed_size = t
  BY <1>5, <1>6 DEF FileEntry, FileEntries, EntryKinds
<1> HIDE DEF e
<1>8. EntryEnd(e) <= pos'
  BY <1>1, <1>6, <1>7 DEF EntryEnd
<1>9. Kept(e, layout \cup N, pos')
  <2>1. \A s \in N : s.id = id
    BY <1>4 DEF Adds
  <2> QED
    BY <1>2, <1>4, <1>5, <1>7, <1>8, <2>1, LastEntryKept
<1>10. EntriesKept'
  BY <1>1, <1>2, <1>3, <1>4, <1>5, <1>7, <1>9, NewEntryKept
<1> QED
  BY <1>3, <1>10

LEMMA InFileKept ==
  ASSUME AlignInv, OrderInv, ChainInv, EntriesKept, AlignInv',
         \/ \E n \in NameLens : BeginFile(n)
         \/ \E r \in ReadSizes : \E f \in FrameSizes : WriteFrame(r, f)
  PROVE  ChainInv' /\ EntriesKept'
<1>1. TypeOK' /\ files' = files /\ attempts \in Nat
  BY DEF AlignInv, TypeOK, BeginFile, WriteFrame
<1>2. CASE \E n \in NameLens : BeginFile(n)
  <2>1. PICK n \in NameLens : BeginFile(n)
    BY <1>2
  <2>2. ChainInv' /\ pos <= pos' /\ \E N : Adds(N, attempts + 1)
    BY <2>1, BeginFileChain
  <2>3. PICK id, N : id = attempts + 1 /\ Adds(N, id)
    BY <2>2
  <2>4. phase = "adding" /\ phase' = "file"
    BY <2>1 DEF BeginFile, NextEntry
  <2>5. id \in Nat /\ \A i \in 1..Len(files) : files[i].id < id
    BY <2>3, EntriesBeforeNext
  <2> QED
    BY <1>1, <2>2, <2>3, <2>4, <2>5, SameEntriesKept
<1>3. CASE \E r \in ReadSizes : \E f \in FrameSizes : WriteFrame(r, f)
  <2>1. PICK r \in ReadSizes : \E f \in FrameSizes : WriteFrame(r, f)
    BY <1>3
  <2>2. PICK f \in FrameSizes : WriteFrame(r, f)
    BY <2>1
  <2>3. ChainInv' /\ pos <= pos' /\ \E N : Adds(N, attempts)
    BY <2>2, WriteFrameChain
  <2>4. PICK N : Adds(N, attempts)
    BY <2>3
  <2>5. phase = "file" /\ phase' = "file"
    BY <2>2 DEF WriteFrame
  <2>6. \A i \in 1..Len(files) : files[i].id < attempts
    BY <2>5, EntriesBeforeNext
  <2> QED
    BY <1>1, <2>3, <2>4, <2>5, <2>6, SameEntriesKept
<1> QED
  BY <1>2, <1>3

LEMMA EndFileKept ==
  ASSUME AlignInv, OrderInv, LocateInv, ChainInv, EntriesKept, AlignInv', EndFile
  PROVE  ChainInv' /\ EntriesKept'
<1> DEFINE csize == pos - cur.compressed_start_offset
           usize == cur.total_uncompressed
           e == FileEntry(attempts, "file", cur.name_len, cur.local_header_offset, csize, usize)
<1>1. phase = "file" /\ phase' = "adding" /\ files' = Append(files, e)
  BY DEF EndFile
<1>2. /\ TypeOK /\ TypeOK' /\ pos \in Nat /\ pos' \in Nat /\ layout \subseteq Structures
      /\ attempts \in Nat /\ cur \in OpenFiles /\ cur.compressed_start_offset <= pos
  BY <1>1 DEF AlignInv, TypeOK, MidFile
<1>3. /\ cur.compressed_start_offset \in Nat /\ cur.total_uncompressed \in Nat
      /\ cur.name_len \in Nat /\ cur.local_header_offset \in Nat
      /\ cur.compressed_start_offset = cur.local_header_offset + LfhLen(cur.name_len)
  BY <1>1, <1>2 DEF OpenFiles, LocateInv, OpenFileLocated
<1>4. ChainInv' /\ pos <= pos'
  BY EndFileChain
<1>5. PICK N : /\ Adds(N, attempts)
               /\ \A s \in N : /\ s.kind \in {"Pad", "SOP", "DD"}
                               /\ s.kind = "DD" => s.len = DescriptorSize(csize, usize)
  BY EndFileChain
<1>6. csize \in Nat
  BY <1>2, <1>3
<1> HIDE DEF csize
<1>7. /\ e \in FileEntries /\ e.id = attempts /\ e.kind = "file" /\ e.name_len = cur.name_len
      /\ e.local_header_offset = cur.local_header_offset /\ e.compressed_size = csize
      /\ e.uncompressed_size = usize
  BY <1>2, <1>3, <1>6 DEF FileEntry, FileEntries, EntryKinds
<1> HIDE DEF e
<1>8. EntryEnd(e) <= pos'
  <2>1. EntryEnd(e) = cur.local_header_offset + LfhLen(cur.name_len) + csize
    BY <1>7 DEF EntryEnd
  <2>2. EntryEnd(e) = pos
    BY <1>2, <1>3, <2>1 DEF csize
  <2> QED
    BY <1>4, <2>2
<1>9. \A s \in layout : s.id = attempts => s.kind \notin {"DD", "Content"}
  BY <1>1, <1>2, ChainWhileAdding DEF OpenId, Chain, InFile
<1>10. Kept(e, layout \cup N, pos')
  <2>1. \A t \in layout \cup N : ~(t.id > e.id)
    <3>1. \A t \in layout : t.id <= attempts /\ t.id \in Nat
      BY <1>2, EntriesBeforeNext DEF Structures
    <3>2. \A t \in N : t.id = attempts
      BY <1>5 DEF Adds
    <3> QED
      BY <1>2, <1>7, <3>1, <3>2
  <2> QED
    BY <1>5, <1>7, <1>8, <1>9, <2>1 DEF Kept
<1>11. \A i \in 1..Len(files) : files[i].id < attempts
  BY <1>1, EntriesBeforeNext
<1>12. EntriesKept'
  <2>1. Adds(N, attempts) /\ phase \in {"adding", "file"} /\ phase' \in {"adding", "file"}
    BY <1>1, <1>5
  <2> QED
    BY <1>1, <1>2, <1>4, <1>7, <1>10, <1>11, <2>1, NewEntryKept
<1> QED
  BY <1>4, <1>12

\* Calls that write nothing.
LEMMA QuietTiles ==
  ASSUME AlignInv, OrderInv, TileInv, SkipEntry \/ AbortFile \/ BeginFinalize \/ UNCHANGED vars
  PROVE  TileInv'
<1>1. /\ attempts \in Nat /\ pos \in Nat /\ layout \in SUBSET Structures /\ files \in Seq(FileEntries)
  BY DEF AlignInv, TypeOK
<1>2. CASE SkipEntry \/ AbortFile
  <2>1. /\ phase \in {"adding", "file"} /\ phase' = "adding" /\ layout' = layout /\ pos' = pos
        /\ attempts' \in Nat /\ attempts <= attempts' /\ files' = files
    BY <1>1, <1>2 DEF SkipEntry, AbortFile, NextEntry
  <2>2. Body(layout) = layout /\ DataEnd = pos
        /\ Chain(layout, pos, OpenId, cur.total_uncompressed, attempts)
    BY <2>1 DEF TileInv, ChainInv, DataEnd
  <2>3. Chain(layout, pos, 0, cur'.total_uncompressed, attempts')
    BY <1>1, <2>1, <2>2, ChainCloses
  <2>4. ChainInv'
    BY <2>1, <2>2, <2>3 DEF ChainInv, DataEnd, OpenId
  <2>5. EntriesKept'
    BY <2>1 DEF TileInv, EntriesKept, DataEnd
  <2>6. DirectoryBehind'
    BY <2>1 DEF DirectoryBehind
  <2> QED
    BY <2>4, <2>5, <2>6 DEF TileInv
<1>3. CASE BeginFinalize
  <2>1. /\ phase = "adding" /\ phase' \in {"failed", "cd"} /\ layout' = layout /\ pos' = pos
        /\ attempts' = attempts /\ files' = files /\ central_dir_start' = pos /\ cur' = cur
        /\ next_cdfh' = 1 /\ (phase' = "cd" => files # <<>>)
    BY <1>3 DEF BeginFinalize
  <2>2. Body(layout) = layout /\ DataEnd = pos /\ DataEnd' = pos /\ OpenId' = OpenId
    BY <2>1 DEF TileInv, ChainInv, DataEnd, OpenId
  <2>3. ChainInv'
    BY <2>1, <2>2 DEF TileInv, ChainInv
  <2>4. EntriesKept'
    BY <2>1, <2>2 DEF TileInv, EntriesKept
  <2>5. ~SomeFileAborted' => SpaceUntilBoundary(pos) >= PADDING_LFH_MIN_SIZE
    <3>1. SomeFileAborted => SomeFileAborted'
      BY <2>1 DEF SomeFileAborted, Recorded
    <3> QED
      BY <2>1, <3>1 DEF OrderInv, RoomForNextHeader
  <2>6. DirectoryBehind'
    <3>1. pos <= pos
      BY <1>1
    <3> QED
      BY <2>1, <2>2, <2>5, <3>1 DEF DirectoryBehind
  <2> QED
    BY <2>3, <2>4, <2>6 DEF TileInv
<1>4. CASE UNCHANGED vars
  BY <1>4 DEF vars, finalizeVars, TileInv, ChainInv, EntriesKept, DirectoryBehind, DataEnd, OpenId,
              SomeFileAborted, Recorded
<1> QED
  BY <1>2, <1>3, <1>4

\* The directory is written behind the data.
LEMMA DirectoryTiles ==
  ASSUME AlignInv, TileInv, phase = "cd", phase' \in {"cd", "done"},
         NEW s \in Structures, s.kind \in {"CDFH", "End"}, s.at = pos,
         layout' = layout \cup {s},
         UNCHANGED <<files, cur, attempts, central_dir_start>>
  PROVE  /\ ChainInv' /\ EntriesKept'
         /\ \A t \in layout' : t \in Body(layout') \/ t.at >= central_dir_start
         /\ ~SomeFileAborted' => SpaceUntilBoundary(central_dir_start) >= PADDING_LFH_MIN_SIZE
<1>1. Body(layout') = Body(layout)
  BY DEF Body
<1>2. DataEnd' = DataEnd /\ OpenId' = OpenId
  BY DEF DataEnd, OpenId
<1>3. ChainInv'
  BY <1>1, <1>2 DEF TileInv, ChainInv
<1>4. EntriesKept'
  BY <1>1, <1>2 DEF TileInv, EntriesKept
<1>5. SomeFileAborted => SomeFileAborted'
  BY DEF SomeFileAborted, Recorded
<1>6. \A t \in layout' : t \in Body(layout') \/ t.at >= central_dir_start
  <2>1. pos >= central_dir_start /\ \A t \in layout : t \in Body(layout) \/ t.at >= central_dir_start
    BY DEF TileInv, DirectoryBehind, AlignInv, TypeOK
  <2> QED
    BY <1>1, <2>1
<1> QED
  BY <1>3, <1>4, <1>5, <1>6 DEF TileInv, DirectoryBehind

LEMMA WriteCentralHeaderTiles ==
  ASSUME AlignInv, TileInv, WriteCentralHeader
  PROVE  TileInv'
<1> DEFINE e == files[next_cdfh]
           s == Structure("CDFH", pos, CdfhLen(e), e.id, 0, 0)
<1>1. /\ phase = "cd" /\ phase' = "cd" /\ next_cdfh <= Len(files) /\ layout' = layout \cup {s}
      /\ pos' = pos + CdfhLen(e) /\ next_cdfh' = next_cdfh + 1
      /\ UNCHANGED <<files, cur, attempts, central_dir_start>>
  BY DEF WriteCentralHeader
<1>2. e \in FileEntries /\ pos \in Nat /\ next_cdfh \in Nat \ {0} /\ central_dir_start \in Nat
  BY <1>1 DEF AlignInv, TypeOK
<1>3. CdfhLen(e) \in Nat /\ e.id \in Nat
  BY <1>2, CdfhLenType DEF FileEntries
<1>4. s \in Structures /\ s.kind = "CDFH" /\ s.at = pos
  <2> HIDE DEF e
  <2> QED
    BY <1>2, <1>3 DEF Structure, Structures, Kinds
<1> HIDE DEF e, s
<1>5. /\ ChainInv' /\ EntriesKept'
      /\ \A t \in layout' : t \in Body(layout') \/ t.at >= central_dir_start
      /\ ~SomeFileAborted' => SpaceUntilBoundary(central_dir_start) >= PADDING_LFH_MIN_SIZE
  BY <1>1, <1>4, DirectoryTiles
<1>6. /\ files # <<>> /\ central_dir_start <= pos
      /\ next_cdfh > 1 => \E t \in layout : t.kind = "CDFH" /\ t.at = central_dir_start
      /\ next_cdfh = 1 => pos = central_dir_start
  BY <1>1 DEF TileInv, DirectoryBehind
<1>7. \E t \in layout' : t.kind = "CDFH" /\ t.at = central_dir_start
  <2>1. next_cdfh > 1 \/ next_cdfh = 1
    BY <1>2
  <2> QED
    BY <1>1, <1>4, <1>6, <2>1
<1>8. central_dir_start <= pos' /\ next_cdfh' # 1
  BY <1>1, <1>2, <1>3, <1>6
<1>9. DirectoryBehind'
  BY <1>1, <1>5, <1>6, <1>7, <1>8 DEF DirectoryBehind
<1> QED
  BY <1>5, <1>9 DEF TileInv

LEMMA WriteEndRecordsTiles ==
  ASSUME AlignInv, TileInv, WriteEndRecords
  PROVE  TileInv'
<1> DEFINE size == EOCD64_SIZE + LOCATOR_SIZE + EOCD_SIZE
           s == Structure("End", pos, size, 0, 0, 0)
<1>1. /\ phase = "cd" /\ phase' = "done" /\ next_cdfh > Len(files) /\ layout' = layout \cup {s}
      /\ pos' = pos + size /\ next_cdfh' = next_cdfh
      /\ UNCHANGED <<files, cur, attempts, central_dir_start>>
  BY DEF WriteEndRecords
<1>2. /\ size = 106 /\ pos \in Nat /\ next_cdfh \in Nat \ {0} /\ central_dir_start \in Nat
      /\ files \in Seq(FileEntries)
  BY DEF EOCD64_SIZE, LOCATOR_SIZE, EOCD_SIZE, AlignInv, TypeOK
<1> HIDE DEF size
<1>3. s \in Structures /\ s.kind = "End" /\ s.at = pos
  BY <1>2 DEF Structure, Structures, Kinds
<1> HIDE DEF s
<1>4. /\ ChainInv' /\ EntriesKept'
      /\ \A t \in layout' : t \in Body(layout') \/ t.at >= central_dir_start
      /\ ~SomeFileAborted' => SpaceUntilBoundary(central_dir_start) >= PADDING_LFH_MIN_SIZE
  BY <1>1, <1>3, DirectoryTiles
<1>5. /\ files # <<>> /\ central_dir_start <= pos
      /\ next_cdfh > 1 => \E t \in layout : t.kind = "CDFH" /\ t.at = central_dir_start
  BY <1>1 DEF TileInv, DirectoryBehind
<1>6. next_cdfh > 1
  BY <1>1, <1>2, <1>5
<1>7. central_dir_start <= pos' /\ pos' >= central_dir_start + 106 /\ next_cdfh' # 1
  BY <1>1, <1>2, <1>5, <1>6
<1>8. DirectoryBehind'
  BY <1>1, <1>4, <1>5, <1>6, <1>7 DEF DirectoryBehind
<1> QED
  BY <1>4, <1>8 DEF TileInv

LEMMA TileInvStep ==
  ASSUME AlignInv, OrderInv, LocateInv, TileInv, AlignInv', [Next]_vars
  PROVE  TileInv'
<1>0. ChainInv /\ EntriesKept
  BY DEF TileInv
<1>1. ASSUME phase' \in {"adding", "file"} PROVE DirectoryBehind'
  BY <1>1 DEF DirectoryBehind
<1>2. ASSUME NEW n \in NameLens, BeginFile(n) PROVE TileInv'
  BY <1>0, <1>1, <1>2, InFileKept DEF BeginFile, TileInv
<1>3. ASSUME NEW n \in NameLens, NEW kind \in {"empty", "dir"}, AddHeaderOnly(kind, n)
      PROVE  TileInv'
  <2>1. ChainInv' /\ EntriesKept'
    BY <1>0, <1>3, AddHeaderOnlyKept
  <2>2. phase' = "adding"
    BY <1>3 DEF AddHeaderOnly, NextEntry
  <2> QED
    BY <1>1, <2>1, <2>2 DEF TileInv
<1>4. ASSUME NEW n \in NameLens, NEW t \in TargetLens, AddSymlink(n, t) PROVE TileInv'
  <2>1. ChainInv' /\ EntriesKept'
    BY <1>0, <1>4, AddSymlinkKept
  <2>2. phase' = "adding"
    BY <1>4 DEF AddSymlink, NextEntry
  <2> QED
    BY <1>1, <2>1, <2>2 DEF TileInv
<1>5. ASSUME NEW r \in ReadSizes, NEW f \in FrameSizes, WriteFrame(r, f) PROVE TileInv'
  <2>1. ChainInv' /\ EntriesKept'
    BY <1>0, <1>5, InFileKept
  <2>2. phase' = "file"
    BY <1>5 DEF WriteFrame
  <2> QED
    BY <1>1, <2>1, <2>2 DEF TileInv
<1>6. CASE EndFile
  <2>1. ChainInv' /\ EntriesKept'
    BY <1>0, <1>6, EndFileKept
  <2>2. phase' = "adding"
    BY <1>6 DEF EndFile
  <2> QED
    BY <1>1, <2>1, <2>2 DEF TileInv
<1> QED
  BY <1>2, <1>3, <1>4, <1>5, <1>6, QuietTiles, WriteCentralHeaderTiles, WriteEndRecordsTiles
     DEF Next

LEMMA TileInvInit == Init => TileInv
<1> SUFFICES ASSUME Init PROVE TileInv
  OBVIOUS
<1>1. /\ phase = "adding" /\ pos = 0 /\ layout = {} /\ files = <<>> /\ attempts = 0
  BY DEF Init
<1>2. Body(layout) = {} /\ OpenId = 0
  BY <1>1 DEF Body, OpenId
<1>3. Chain({}, 0, 0, cur.total_uncompressed, 0)
  BY DEF Chain, Tiled, Ordered, Headed, Followed, Counted, TargetsPlaced, InFile
<1>4. ChainInv
  BY <1>1, <1>2, <1>3 DEF ChainInv, DataEnd
<1>5. EntriesKept
  BY <1>1 DEF EntriesKept
<1> QED
  BY <1>1, <1>4, <1>5 DEF TileInv, DirectoryBehind

LEMMA LocateInvariant == Spec => []LocateInv
<1>1. Init => LocateInv
  BY DEF Init, LocateInv, EntriesLocateData, OpenFileLocated
<1>2. AlignInv /\ OrderInv /\ LocateInv /\ [Next]_vars => LocateInv'
  BY LocateInvStep
<1> QED
  BY <1>1, <1>2, AlignInvariant, OrderInvariant, PTL DEF Spec

LEMMA TileInvariant == Spec => []TileInv
<1>1. AlignInv /\ OrderInv /\ LocateInv /\ TileInv /\ AlignInv' /\ [Next]_vars => TileInv'
  BY TileInvStep
<1> QED
  BY <1>1, TileInvInit, AlignInvariant, OrderInvariant, LocateInvariant, PTL DEF Spec
=============================================================================
