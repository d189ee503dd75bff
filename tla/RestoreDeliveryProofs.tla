----------------------- MODULE RestoreDeliveryProofs -----------------------
(***************************************************************************)
(* What the processors deliver, for an archive none of whose files failed  *)
(* half-way: data in its place, refusals for known reasons only, and whole *)
(* files when every part succeeds.                                         *)
(***************************************************************************)
EXTENDS RestoreProofs

(***************************************************************************)
(* Where a processor may stand.  While it expects a header it is at one,   *)
(* at the directory, at the start of its part or, after a chunk ended      *)
(* inside a descriptor, in that descriptor; while it processes frames it   *)
(* is at a piece behind the header of its file and before any later        *)
(* header, and knows how much the frames before hold; while it reads a     *)
(* target it is inside it.                                                 *)
(***************************************************************************)
Between(at) ==
  \/ at = central_dir_start
  \/ \E t \in Pieces : t.at = at /\ t.kind \in {"LFH", "PadLFH"}

InDescriptor(at) == \E d \in Pieces : d.kind = "DD" /\ d.at < at /\ at < d.at + d.len

ExpectsHeader(at, p) ==
  \/ at = p * part_size /\ ContinuingFile(cd_files, p) = 0
  \/ Between(at)
  \/ InDescriptor(at)

InFrames(at, i, u) ==
  /\ files[i].kind # "symlink"
  /\ files[i].local_header_offset < at
  /\ at = central_dir_start \/ \E s \in Pieces : s.at = at
  /\ \A h \in Pieces : h.kind = "LFH" /\ h.at < at => h.id <= files[i].id
  /\ Reached(Pieces, files[i].id, at, u)

InTarget(at, i, n, source) ==
  /\ files[i].kind = "symlink"
  /\ \E c \in Pieces : /\ c.kind = "Content" /\ c.id = files[i].id
                       /\ c.len = files[i].uncompressed_size
                       /\ at = c.at + n /\ n < c.len
                       /\ n > 0 => source = files[i].id

Active(q) == q.state \notin {"DONE", "ERROR"}

Placement(q, p) ==
  /\ q.state = "CONTINUING_FILE" => q.at = p * part_size
  /\ q.state = "EXPECT_LOCAL_HEADER" => ExpectsHeader(q.at, p)
  /\ q.state = "PROCESSING_FRAMES" => InFrames(q.at, q.file, q.uncompressed_offset)
  /\ q.state = "READING_SYMLINK" =>
       InTarget(q.at, q.file, q.symlink_bytes_read, q.symlink_source)
  /\ q.state = "DONE" => q.at = q.received
  /\ Active(q) => q.next_entry_idx = Cardinality(Seen(p, q.at))
  /\ q.finalized => q.state = "DONE"
  /\ q.state # "ERROR" => q.error = "none"

\* The frames before a position hold one number of bytes.
LEMMA ReachedOnce ==
  ASSUME Restorable, NEW id, NEW at, NEW u \in Nat, NEW v \in Nat,
         Reached(Pieces, id, at, u), Reached(Pieces, id, at, v)
  PROVE  u = v
<1>1. \A f \in FramesBefore(Pieces, id, at) : f.uoff \in Nat /\ f.ulen \in Nat
  BY PieceTypes DEF FramesBefore
<1>2. u <= v
  BY <1>1 DEF Reached
<1>3. v <= u
  BY <1>1 DEF Reached
<1> QED
  BY <1>2, <1>3

\* What starts before the end of a piece is the piece or lies before it.
LEMMA BeforeEnd ==
  ASSUME Restorable, NEW s \in Pieces, NEW f \in Pieces, f.at < s.at + s.len
  PROVE  f = s \/ f.at < s.at
<1>1. f.at \in Nat /\ s.at \in Nat /\ s.len \in Nat
  BY PieceTypes
<1>2. s.at <= f.at => f = s
  BY OnePiece
<1> QED
  BY <1>1, <1>2

LEMMA ReachedAcross ==
  ASSUME Restorable, NEW s \in Pieces, NEW id, NEW u, s.kind # "Frame",
         Reached(Pieces, id, s.at, u)
  PROVE  Reached(Pieces, id, s.at + s.len, u)
<1>1. FramesBefore(Pieces, id, s.at + s.len) = FramesBefore(Pieces, id, s.at)
  <2> SUFFICES ASSUME NEW f \in Pieces, f.kind = "Frame"
               PROVE  f.at < s.at + s.len <=> f.at < s.at
    BY DEF FramesBefore
  <2>1. f.at \in Nat /\ s.at \in Nat /\ s.len \in Nat
    BY PieceTypes
  <2> QED
    BY <2>1, BeforeEnd
<1> QED
  BY <1>1, Zenon DEF Reached

LEMMA ReachedFrame ==
  ASSUME Restorable, NEW s \in Pieces, s.kind = "Frame"
  PROVE  Reached(Pieces, s.id, s.at + s.len, s.uoff + s.ulen)
<1>1. Reached(Pieces, s.id, s.at, s.uoff)
  BY ArchiveWritten DEF Counted
<1>2. s.at \in Nat /\ s.len \in Nat \ {0} /\ s.uoff \in Nat /\ s.ulen \in Nat
  BY PieceTypes
<1>3. s \in FramesBefore(Pieces, s.id, s.at + s.len)
  BY <1>2 DEF FramesBefore
<1>4. ASSUME NEW f \in FramesBefore(Pieces, s.id, s.at + s.len)
      PROVE  f.uoff + f.ulen <= s.uoff + s.ulen
  <2>1. f \in Pieces /\ f.kind = "Frame" /\ f.id = s.id /\ f.at < s.at + s.len
    BY DEF FramesBefore
  <2>2. f.uoff \in Nat /\ f.ulen \in Nat
    BY <2>1, PieceTypes
  <2>3. f = s \/ f.at < s.at
    BY <2>1, BeforeEnd
  <2>4. f.at < s.at => f.uoff + f.ulen <= s.uoff
    BY <1>1, <2>1 DEF Reached, FramesBefore
  <2> QED
    BY <1>2, <2>2, <2>3, <2>4
<1> QED
  BY <1>3, <1>4 DEF Reached

\* Behind a piece of the file.
LEMMA BehindPiece ==
  ASSUME Restorable, NEW i \in 1..Len(files), files[i].kind # "symlink",
         NEW s \in Pieces, s.id = files[i].id, files[i].local_header_offset <= s.at,
         NEW u, Reached(Pieces, s.id, s.at + s.len, u)
  PROVE  InFrames(s.at + s.len, i, u)
<1>1. s.at \in Nat /\ s.len \in Nat \ {0} /\ files[i].local_header_offset \in Nat
  BY PieceTypes, EntryTypes
<1>2. files[i].local_header_offset < s.at + s.len
  BY <1>1
<1>3. s.at + s.len = central_dir_start \/ \E t \in Pieces : t.at = s.at + s.len
  BY ArchiveWritten DEF Tiled
<1>4. ASSUME NEW h \in Pieces, h.at < s.at + s.len PROVE h.id <= files[i].id
  <2>1. h = s \/ h.at < s.at
    BY <1>4, BeforeEnd
  <2>2. h.at <= s.at
    BY <1>1, <2>1, PieceTypes
  <2> QED
    BY <2>2, IdsInOrder
<1> QED
  BY <1>2, <1>3, <1>4 DEF InFrames

\* Behind the header of an entry that is not a symlink nothing of it has been
\* read,
LEMMA BehindHeader ==
  ASSUME Restorable, NEW i \in 1..Len(files), files[i].kind # "symlink",
         NEW s \in Pieces, s.kind = "LFH", s.id = files[i].id,
         files[i].local_header_offset = s.at
  PROVE  InFrames(s.at + s.len, i, 0)
<1>1. FramesBefore(Pieces, s.id, s.at) = {}
  <2> SUFFICES ASSUME NEW f \in FramesBefore(Pieces, s.id, s.at) PROVE FALSE
    OBVIOUS
  <2>1. f \in Pieces /\ f.kind = "Frame" /\ f.id = s.id /\ f.at < s.at
    BY DEF FramesBefore
  <2>2. f.id < s.id
    BY <2>1, NothingBeforeHeader
  <2> QED
    BY <2>1, <2>2, PieceTypes
<1>2. Reached(Pieces, s.id, s.at, 0)
  BY <1>1 DEF Reached
<1>3. Reached(Pieces, s.id, s.at + s.len, 0)
  BY <1>2, ReachedAcross
<1>4. files[i].local_header_offset <= s.at
  BY PieceTypes
<1> QED
  BY <1>3, <1>4, BehindPiece

\* and behind that of a symlink its target starts.
LEMMA BehindSymlinkHeader ==
  ASSUME Restorable, NEW i \in 1..Len(files), files[i].kind = "symlink",
         NEW s \in Pieces, s.kind = "LFH", s.id = files[i].id, NEW source
  PROVE  InTarget(s.at + s.len, i, 0, source)
<1>1. PICK c \in Pieces : /\ c.kind = "Content" /\ c.id = files[i].id
                          /\ c.len = files[i].uncompressed_size
  BY DEF Restorable, ArchiveInv, TileInv, EntriesKept, Kept, Pieces
<1>2. PICK h \in Pieces : h.kind = "LFH" /\ h.id = c.id /\ h.at + h.len = c.at
  BY <1>1, ArchiveWritten DEF TargetsPlaced
<1>3. h = s
  BY <1>1, <1>2, OneHeader
<1>4. c.at \in Nat /\ c.len \in Nat \ {0}
  BY PieceTypes
<1>5. s.at + s.len = c.at + 0 /\ 0 < c.len
  BY <1>2, <1>3, <1>4
<1> QED
  BY <1>1, <1>5 DEF InTarget

\* The piece a processor of frames is at.
LEMMA AtPiece ==
  ASSUME Restorable, NEW i \in 1..Len(files), NEW s \in Pieces, NEW u \in Nat,
         InFrames(s.at, i, u), s.kind \notin {"LFH", "PadLFH"}
  PROVE  /\ s.id = files[i].id
         /\ s.kind \in {"Frame", "SOP", "DD", "Pad"}
         /\ s.kind = "Frame" => s.uoff = u
<1>1. s.id = files[i].id
  BY OwnPiece DEF InFrames
<1>2. s.kind # "Content"
  BY <1>1, OwnKind DEF InFrames
<1>3. s.kind \in {"Frame", "SOP", "DD", "Pad"}
  BY <1>2, PieceTypes DEF Structures, Kinds
<1>4. ASSUME s.kind = "Frame" PROVE s.uoff = u
  <2>1. Reached(Pieces, s.id, s.at, s.uoff)
    BY <1>4, ArchiveWritten DEF Counted
  <2>2. Reached(Pieces, s.id, s.at, u)
    BY <1>1 DEF InFrames
  <2>3. s.uoff \in Nat
    BY PieceTypes
  <2> QED
    BY <2>1, <2>2, <2>3, ReachedOnce
<1> QED
  BY <1>1, <1>3, <1>4

\* The next piece, with the offset the processor keeps.
LEMMA NextPiece ==
  ASSUME Restorable, NEW i \in 1..Len(files), NEW s \in Pieces, NEW u \in Nat,
         InFrames(s.at, i, u)
  PROVE  /\ s.kind = "Pad" => InFrames(s.at + s.len, i, u)
         /\ s.kind = "SOP" => InFrames(s.at + s.len, i, s.uoff)
         /\ s.kind = "Frame" => InFrames(s.at + s.len, i, u + s.ulen)
<1>1. s.kind \in {"Pad", "SOP", "Frame"} => s.id = files[i].id /\ (s.kind = "Frame" => s.uoff = u)
  BY AtPiece
<1>2. files[i].kind # "symlink" /\ files[i].local_header_offset <= s.at
      /\ Reached(Pieces, files[i].id, s.at, u)
  BY PieceTypes, EntryTypes DEF InFrames
<1>3. ASSUME s.kind = "Pad" PROVE InFrames(s.at + s.len, i, u)
  <2>1. Reached(Pieces, s.id, s.at + s.len, u)
    BY <1>1, <1>2, <1>3, ReachedAcross
  <2> QED
    BY <1>1, <1>2, <1>3, <2>1, BehindPiece
<1>4. ASSUME s.kind = "SOP" PROVE InFrames(s.at + s.len, i, s.uoff)
  <2>1. Reached(Pieces, s.id, s.at, s.uoff)
    BY <1>4, ArchiveWritten DEF Counted
  <2>2. Reached(Pieces, s.id, s.at + s.len, s.uoff)
    BY <1>4, <2>1, ReachedAcross
  <2> QED
    BY <1>1, <1>2, <1>4, <2>2, BehindPiece
<1>5. ASSUME s.kind = "Frame" PROVE InFrames(s.at + s.len, i, u + s.ulen)
  <2>1. Reached(Pieces, s.id, s.at + s.len, s.uoff + s.ulen)
    BY <1>5, ReachedFrame
  <2>2. InFrames(s.at + s.len, i, s.uoff + s.ulen)
    BY <1>1, <1>2, <1>5, <2>1, BehindPiece
  <2> QED
    BY <1>1, <1>5, <2>2
<1> QED
  BY <1>3, <1>4, <1>5

\* Behind a Start-of-Part frame that begins a part.
LEMMA BehindStart ==
  ASSUME Restorable, NEW i \in 1..Len(files), files[i].kind = "file",
         NEW s \in Pieces, s.kind = "SOP", s.id = files[i].id,
         files[i].local_header_offset < s.at
  PROVE  InFrames(s.at + s.len, i, s.uoff)
<1>1. Reached(Pieces, s.id, s.at, s.uoff)
  BY ArchiveWritten DEF Counted
<1>2. Reached(Pieces, s.id, s.at + s.len, s.uoff)
  BY <1>1, ReachedAcross
<1>3. files[i].local_header_offset <= s.at /\ files[i].kind # "symlink"
  BY PieceTypes, EntryTypes
<1> QED
  BY <1>2, <1>3, BehindPiece

\* A header follows descriptors, targets and padding headers.
LEMMA BehindEntry ==
  ASSUME Restorable, NEW s \in Pieces, s.kind \in {"DD", "Content", "PadLFH"}
  PROVE  Between(s.at + s.len)
<1>1. HeaderFollows(Pieces, s) \/ s.at + s.len = central_dir_start
  BY ArchiveWritten DEF Followed
<1> QED
  BY <1>1 DEF Between, HeaderFollows

(***************************************************************************)
(* What parse_next_frame finds where a processor stands.                   *)
(***************************************************************************)
LEMMA SeenInFrames ==
  ASSUME Restorable, NEW i \in 1..Len(files), NEW at \in Nat, NEW u \in Nat,
         InFrames(at, i, u), NEW s, s = FrameAtPosition(at)
  PROVE  \/ at = central_dir_start /\ s.kind = "CDFH"
         \/ s \in Pieces /\ s.at = at /\ s.kind \in {"LFH", "PadLFH"}
         \/ /\ s \in Pieces /\ s.at = at /\ s.kind \in {"Frame", "SOP", "DD", "Pad"}
            /\ s.id = files[i].id /\ (s.kind = "Frame" => s.uoff = u)
<1>1. CASE at = central_dir_start
  BY <1>1, FrameIsDirectory
<1>2. CASE at # central_dir_start
  <2>1. PICK t \in Pieces : t.at = at
    BY <1>2 DEF InFrames
  <2>2. t.kind \notin {"LFH", "PadLFH"} =>
          /\ t.id = files[i].id /\ t.kind \in {"Frame", "SOP", "DD", "Pad"}
          /\ t.kind = "Frame" => t.uoff = u
    BY <2>1, AtPiece
  <2>3. t.kind # "Content"
    BY <2>2
  <2>4. s = t
    BY <2>1, <2>3, FrameIsPiece
  <2> QED
    BY <2>1, <2>2, <2>4
<1> QED
  BY <1>1, <1>2

LEMMA SeenBetween ==
  ASSUME Restorable, NEW at, Between(at), NEW s, s = FrameAtPosition(at)
  PROVE  \/ at = central_dir_start /\ s.kind = "CDFH"
         \/ s \in Pieces /\ s.at = at /\ s.kind \in {"LFH", "PadLFH"}
<1>1. CASE at = central_dir_start
  BY <1>1, FrameIsDirectory
<1>2. CASE at # central_dir_start
  <2>1. PICK t \in Pieces : t.at = at /\ t.kind \in {"LFH", "PadLFH"}
    BY <1>2 DEF Between
  <2>2. s = t
    BY <2>1, FrameIsPiece
  <2> QED
    BY <2>1, <2>2
<1> QED
  BY <1>1, <1>2

LEMMA SeenExpecting ==
  ASSUME Restorable, NEW p \in Processors, NEW at \in Nat, ExpectsHeader(at, p),
         Cardinality(Seen(p, at)) < Cardinality(EntriesOf(cd_files, p)),
         NEW s, s = FrameAtPosition(at)
  PROVE  \/ at = central_dir_start /\ s.kind = "CDFH"
         \/ s \in Pieces /\ s.at = at /\ s.kind \in {"LFH", "PadLFH"}
         \/ /\ s \in Pieces /\ s.at = at /\ s.kind = "SOP"
            /\ at = p * part_size /\ ContinuingFile(cd_files, p) = 0
         \/ InDescriptor(at) /\ s.kind = "Unknown"
<1>1. CASE Between(at)
  BY <1>1, SeenBetween
<1>2. CASE at = p * part_size /\ ContinuingFile(cd_files, p) = 0
  <2>1. PICK i \in EntriesOf(cd_files, p) : at <= files[i].local_header_offset
    BY EntriesLeft, PartEnds
  <2>2. i \in 1..Len(files)
    BY SeenFinite
  <2>3. PICK h \in Pieces : h.at = files[i].local_header_offset
    BY <2>2, EntryHeader
  <2>4. at < central_dir_start
    BY <2>1, <2>3, PieceTypes, ArchiveWritten
  <2>5. PICK t \in Pieces : t.at = at /\ t.kind \in {"LFH", "PadLFH", "SOP"}
    BY <1>2, <2>4, PartBegins
  <2>6. s = t
    BY <2>5, FrameIsPiece
  <2> QED
    BY <1>2, <2>5, <2>6
<1>3. CASE InDescriptor(at)
  BY <1>3, FrameInsidePiece DEF InDescriptor
<1> QED
  BY <1>1, <1>2, <1>3 DEF ExpectsHeader

\* Start-of-Part frames stand on boundaries.
LEMMA OnBoundary ==
  ASSUME Restorable, NEW s \in Pieces, s.kind = "SOP"
  PROVE  s.at % PART_SIZE = 0
<1>1. s.at \in Nat /\ PART_SIZE \in Nat \ {0} /\ SpaceUntilBoundary(s.at) = PART_SIZE
  BY PieceTypes, ArchiveWritten, FormatAssumption DEF Sized
<1>2. PICK k \in Nat : k = s.at \div PART_SIZE
  BY <1>1, QuotientBrackets
<1>3. (k + 1) * PART_SIZE - s.at = PART_SIZE
  BY <1>1, <1>2 DEF SpaceUntilBoundary, alignment_next_boundary
<1>4. (k + 1) * PART_SIZE = k * PART_SIZE + PART_SIZE /\ k * PART_SIZE \in Nat
  BY <1>1, Z3
<1>5. s.at = k * PART_SIZE
  BY <1>1, <1>3, <1>4
<1> QED
  BY <1>1, <1>2, <1>5, Z3

(***************************************************************************)
(* The output files.  Nothing but the file's own data is written, each     *)
(* frame at its own offset; a file that was finished has its size and its  *)
(* mode, however many parts open, write and truncate it, and a symlink its *)
(* target, unless it could not be made.                                    *)
(***************************************************************************)
OutputOK(i, o) ==
  /\ o \in [size : Nat, mode : Modes, finished : BOOLEAN, written : SUBSET DataOf(files[i].id)]
  /\ o.finished /\ files[i].kind \in {"file", "empty"} =>
       o.size = files[i].uncompressed_size /\ o.mode = ArchivedMode(files[i])
  /\ o.finished /\ files[i].kind = "symlink" =>
       DataOf(files[i].id) \subseteq o.written \/ InReadOnlyDirectory(i)

OutputsOK == DOMAIN out = 1..Len(files) /\ \A i \in 1..Len(files) : OutputOK(i, out[i])

(***************************************************************************)
(* Permissions.  What is without write permission was found so, or is      *)
(* archived so and, if it is a file, was opened by a part: one it          *)
(* continues into, or the one it starts in, which is then past it.         *)
(***************************************************************************)
Begun(i) ==
  \E r \in Processors :
    \/ ContinuingFile(cd_files, r) = i
    \/ \E k \in Nat : k < proc[r].next_entry_idx /\ EntryAt(cd_files, r, k) = i

MadeReadOnly(i) == ArchivedMode(cd_files[i]) = "readonly" /\ (Regular(i) => Begun(i))

Permitted ==
  /\ place \in Places(cd_files)
  /\ \A i \in DOMAIN out :
       out[i].mode = "readonly" => place[i].found = "readonly" \/ MadeReadOnly(i)
  /\ \A p \in Processors : proc[p].file # 0 => Begun(proc[p].file)

\* A directory on the path of an entry that takes no new names is one of
\* those that may.
LEMMA LockedIsReadOnly ==
  ASSUME Restorable, OutputsOK, Permitted, NEW i \in 1..Len(files), InLockedDirectory(i)
  PROVE  InReadOnlyDirectory(i)
<1>1. DOMAIN cd_files = 1..Len(files) /\ DOMAIN out = 1..Len(files)
  BY EntriesParsed DEF OutputsOK
<1>2. PICK d \in place[i].dirs : out[d].mode = "readonly" /\ ~Root
  BY DEF InLockedDirectory
<1>3. d \in DOMAIN out
  BY <1>1, <1>2 DEF Permitted, Places
<1>4. ReadOnlyEver(d)
  BY <1>2, <1>3 DEF Permitted, MadeReadOnly, ReadOnlyEver
<1> QED
  BY <1>2, <1>4 DEF InReadOnlyDirectory

\* Why an entry cannot be opened: a directory of its path, or its own mode.
LEMMA WhyRefused ==
  ASSUME Restorable, OutputsOK, Permitted, NEW i \in 1..Len(files), ~CanOpen(i)
  PROVE  /\ ~Root
         /\ \/ InReadOnlyDirectory(i)
            \/ Regular(i) /\ place[i].found = "readonly"
            \/ Regular(i) /\ ArchivedMode(cd_files[i]) = "readonly" /\ Begun(i)
<1>1. DOMAIN cd_files = 1..Len(files) /\ DOMAIN out = 1..Len(files)
  BY EntriesParsed DEF OutputsOK
<1>2. CASE \E d \in place[i].dirs : ~CanMake(d)
  <2>1. PICK d \in place[i].dirs : InLockedDirectory(d)
    BY <1>2 DEF CanMake
  <2>2. d \in 1..Len(files) /\ place[d].dirs \subseteq place[i].dirs
    BY <1>1, <2>1 DEF Permitted, Places
  <2>3. InReadOnlyDirectory(d)
    BY <2>1, <2>2, LockedIsReadOnly
  <2> QED
    BY <2>2, <2>3 DEF InReadOnlyDirectory
<1>3. CASE ~CanMake(i)
  <2>1. InReadOnlyDirectory(i)
    BY <1>3, LockedIsReadOnly DEF CanMake
  <2> QED
    BY <2>1 DEF InReadOnlyDirectory
<1>4. CASE Regular(i) /\ out[i].mode = "readonly" /\ ~Root
  BY <1>1, <1>4 DEF Permitted, MadeReadOnly
<1> QED
  BY <1>2, <1>3, <1>4 DEF CanOpen

\* A file the part's next header names was not begun by the part it starts
\* in.
LEMMA NextNotBegun ==
  ASSUME Restorable, NEW p \in Processors, ~NoEntryLeft(p),
         NEW i, i = EntryAt(cd_files, p, proc[p].next_entry_idx), Begun(i)
  PROVE  \E r \in Processors : ContinuingFile(cd_files, r) = i
<1> SUFFICES ASSUME NEW r \in Processors, NEW k \in Nat, k < proc[r].next_entry_idx,
                    EntryAt(cd_files, r, k) = i
             PROVE  FALSE
  BY DEF Begun
<1>1. Directory(cd_files, Len(files))
  BY EntriesParsed
<1>2. \A x \in Processors : /\ proc[x].next_entry_idx \in Nat
                            /\ Cardinality(EntriesOf(cd_files, x)) \in Nat
                            /\ proc[x].next_entry_idx <= Cardinality(EntriesOf(cd_files, x))
  BY <1>1, EntriesFinite DEF Restorable, RestoreInv, ProcessorOK, ProcessorStates
<1>3. k < Cardinality(EntriesOf(cd_files, r))
  BY <1>2
<1>4. i \in EntriesOf(cd_files, r) /\ Cardinality(EntriesBefore(cd_files, r, i)) = k
  BY <1>1, <1>3, EntryAtExists
<1>5. proc[p].next_entry_idx < Cardinality(EntriesOf(cd_files, p))
  BY <1>2 DEF NoEntryLeft
<1>6. /\ i \in EntriesOf(cd_files, p)
      /\ Cardinality(EntriesBefore(cd_files, p, i)) = proc[p].next_entry_idx
  BY <1>1, <1>2, <1>5, EntryAtExists
<1>7. r = p
  BY <1>4, <1>6 DEF EntriesOf
<1> QED
  BY <1>2, <1>4, <1>6, <1>7

(***************************************************************************)
(* The handlers, one by one: a processor that stands well goes on to stand *)
(* well, and whatever error it ends with is explained.                     *)
(***************************************************************************)

\* The entry q opens next, or could not open.
Wanted(q, p) ==
  IF ContinuingFile(cd_files, p) # 0 /\ q.at = p * part_size
  THEN ContinuingFile(cd_files, p)
  ELSE EntryAt(cd_files, p, q.next_entry_idx)

Explained(q, p) ==
  /\ q.error = "INVALID_FRAME" => ContinuationMissed(p) \/ InDescriptor(q.at)
  /\ q.error = "IO" => OpenRefused(Wanted(q, p))
  /\ q.error # "UNEXPECTED_EOF"

Stands(q, p) == Placement(q, p) /\ Explained(q, p)

\* The state a handler finds.
Working(p, q) ==
  /\ Restorable
  /\ p \in Processors
  /\ q = proc[p]
  /\ Stands(q, p)
  /\ OutputsOK
  /\ Permitted

LEMMA WorkingFacts ==
  ASSUME NEW p, NEW q, Working(p, q), NEW s, s = FrameAtPosition(q.at)
  PROVE  /\ AlignInv /\ RestoreInv /\ Restorable /\ p \in Processors /\ q = proc[p]
         /\ Placement(q, p) /\ Explained(q, p)
         /\ ProcessorOK(q, p) /\ q \in ProcessorStates
         /\ q.at \in Nat /\ q.received \in Nat /\ q.at <= q.received
         /\ q.next_entry_idx \in Nat
         /\ q.uncompressed_offset \in Nat /\ q.symlink_bytes_read \in Nat
         /\ s.len \in Nat /\ s.uoff \in Nat /\ s.ulen \in Nat /\ s.id \in Nat
         /\ q.state # "READING_SYMLINK" => q.symlink_bytes_read = 0
         /\ HasFile(q) => q.file \in 1..Len(files)
         /\ p \in Nat /\ p * part_size \in Nat /\ p * part_size <= q.at
         /\ q.received <= PartDataEnd(p)
<1>1. /\ AlignInv /\ RestoreInv /\ Restorable /\ p \in Processors /\ q = proc[p]
      /\ Placement(q, p) /\ Explained(q, p)
  BY DEF Working, Stands, Restorable, ArchiveInv
<1>2. /\ ProcessorOK(q, p) /\ q \in ProcessorStates
      /\ q.at \in Nat /\ q.received \in Nat /\ q.at <= q.received
      /\ q.next_entry_idx \in Nat /\ q.file \in 0..Len(cd_files)
      /\ q.uncompressed_offset \in Nat /\ q.symlink_bytes_read \in Nat
      /\ s.len \in Nat /\ s.uoff \in Nat /\ s.ulen \in Nat /\ s.id \in Nat
      /\ q.state # "READING_SYMLINK" => q.symlink_bytes_read = 0
  BY <1>1, HandlerFacts
<1>3. HasFile(q) => q.file # 0
  BY <1>2 DEF ProcessorOK, HasFile
<1>4. Len(cd_files) = Len(files) /\ Len(files) \in Nat
  BY <1>1, EntriesParsed, ArchiveWritten
<1>5. HasFile(q) => q.file \in 1..Len(files)
  BY <1>2, <1>3, <1>4
<1>6. p \in Nat /\ p * part_size \in Nat
  BY <1>1, PartEnds
<1>7. p * part_size <= q.at /\ q.received <= PartDataEnd(p)
  BY <1>2 DEF ProcessorOK
<1> QED
  BY <1>1, <1>2, <1>5, <1>6, <1>7

\* A processor that gives up.
LEMMA FailureStands ==
  ASSUME NEW p, NEW q, Working(p, q), Active(q), NEW code, Fails(p, code),
         code = "INVALID_FRAME" => ContinuationMissed(p) \/ InDescriptor(q.at),
         code = "IO" => OpenRefused(Wanted(q, p)),
         code # "UNEXPECTED_EOF"
  PROVE  \E n : Becomes(p, n) /\ Stands(n, p)
<1> DEFINE n == [q EXCEPT !.state = "ERROR", !.error = code]
<1>1. q = proc[p] /\ Placement(q, p) /\ q \in ProcessorStates
  BY WorkingFacts
<1>2. Becomes(p, n)
  BY <1>1 DEF Fails
<1>3. /\ n.state = "ERROR" /\ n.error = code /\ n.at = q.at
      /\ n.next_entry_idx = q.next_entry_idx /\ n.finalized = q.finalized
  BY <1>1 DEF ProcessorStates
<1> HIDE DEF n
<1>4. Placement(n, p)
  BY <1>1, <1>3 DEF Placement, Active
<1>5. Explained(n, p)
  BY <1>3 DEF Explained, Wanted
<1> QED
  BY <1>2, <1>4, <1>5 DEF Stands

\* A processor that goes on: what has to be shown of its new record.
LEMMA GoesOn ==
  ASSUME NEW p, NEW q, Working(p, q), Active(q), NEW n,
         n.finalized = q.finalized, n.error = q.error,
         n.state \in {"EXPECT_LOCAL_HEADER", "PROCESSING_FRAMES", "READING_SYMLINK"},
         n.next_entry_idx = Cardinality(Seen(p, n.at)),
         n.state = "EXPECT_LOCAL_HEADER" => ExpectsHeader(n.at, p),
         n.state = "PROCESSING_FRAMES" => InFrames(n.at, n.file, n.uncompressed_offset),
         n.state = "READING_SYMLINK" =>
           InTarget(n.at, n.file, n.symlink_bytes_read, n.symlink_source)
  PROVE  Stands(n, p)
<1>1. Placement(q, p) /\ Explained(q, p)
  BY DEF Working, Stands
<1>2. ~q.finalized /\ n.error = "none"
  BY <1>1 DEF Placement, Active
<1>3. Placement(n, p)
  BY <1>2 DEF Placement
<1>4. Explained(n, p)
  BY <1>2 DEF Explained
<1> QED
  BY <1>3, <1>4 DEF Stands

LEMMA OpensStands ==
  ASSUME NEW p, NEW q, Working(p, q), Active(q), NEW s, s = FrameAtPosition(q.at),
         NEW i \in 1..Len(files), NEW offset, NEW state, NEW k,
         Opens(p, s, i, offset, state, k),
         state \in {"PROCESSING_FRAMES", "READING_SYMLINK"},
         k = Cardinality(Seen(p, q.at + s.len)),
         state = "PROCESSING_FRAMES" => InFrames(q.at + s.len, i, offset),
         state = "READING_SYMLINK" =>
           InTarget(q.at + s.len, i, q.symlink_bytes_read, q.symlink_source),
         ~CanOpen(i) => OpenRefused(Wanted(q, p))
  PROVE  \E n : Becomes(p, n) /\ Stands(n, p)
<1>1. q = proc[p] /\ q \in ProcessorStates /\ Restorable
  BY WorkingFacts
<1>2. CASE CanOpen(i)
  <2> DEFINE n == [Past(p, s) EXCEPT !.file = i, !.uncompressed_offset = offset,
                                     !.state = state, !.next_entry_idx = k]
  <2>1. Becomes(p, n)
    BY <1>2, Zenon DEF Opens
  <2>2. /\ n.at = q.at + s.len /\ n.file = i /\ n.state = state /\ n.next_entry_idx = k
        /\ n.uncompressed_offset = offset /\ n.finalized = q.finalized /\ n.error = q.error
        /\ n.symlink_bytes_read = q.symlink_bytes_read
        /\ n.symlink_source = q.symlink_source
    BY <1>1 DEF Past, ProcessorStates
  <2> HIDE DEF n
  <2>3. Stands(n, p)
    BY <2>2, GoesOn
  <2> QED
    BY <2>1, <2>3
<1>3. CASE ~CanOpen(i)
  <2>1. Fails(p, "IO")
    BY <1>3, Zenon DEF Opens
  <2> QED
    BY <1>3, <2>1, FailureStands
<1> QED
  BY <1>2, <1>3

\* An open that fails does so for a reason the property names.
LEMMA RefusalKnown ==
  ASSUME NEW p, NEW q, Working(p, q), NEW i \in 1..Len(files), ~CanOpen(i),
         Begun(i) => \E r \in Processors : ContinuingFile(cd_files, r) = i
  PROVE  OpenRefused(i)
<1>1. Restorable /\ OutputsOK /\ Permitted
  BY DEF Working
<1>2. /\ ~Root
      /\ \/ InReadOnlyDirectory(i)
         \/ Regular(i) /\ place[i].found = "readonly"
         \/ Regular(i) /\ ArchivedMode(cd_files[i]) = "readonly" /\ Begun(i)
  BY <1>1, WhyRefused
<1> QED
  BY <1>2 DEF OpenRefused

\* The continuing file is opened at its Start-of-Part frame.
LEMMA ContinueFileStands ==
  ASSUME NEW p, NEW q, Working(p, q), NEW s, s = FrameAtPosition(q.at), ContinueFile(p, s)
  PROVE  \E n : Becomes(p, n) /\ Stands(n, p)
<1> DEFINE i == ContinuingFile(cd_files, p)
<1>1. /\ Restorable /\ p \in Processors /\ q = proc[p] /\ Placement(q, p) /\ ProcessorOK(q, p)
      /\ q.at \in Nat
  BY WorkingFacts
<1>2. /\ q.state = "CONTINUING_FILE"
      /\ Opens(p, s, i, s.uoff, "PROCESSING_FRAMES", q.next_entry_idx)
  BY <1>1 DEF ContinueFile, Handles, SopOffset
<1>3. q.at = p * part_size /\ q.next_entry_idx = Cardinality(Seen(p, q.at)) /\ i # 0
      /\ Active(q)
  BY <1>1, <1>2 DEF Placement, Active, ProcessorOK
<1> HIDE DEF i
<1>4. /\ i \in 1..Len(files) /\ files[i].local_header_offset < p * part_size
      /\ files[i].kind = "file"
      /\ \E t \in Pieces : t.at = p * part_size /\ t.kind = "SOP" /\ t.id = files[i].id
  BY <1>1, <1>3, Continues DEF i
<1>5. PICK t \in Pieces : t.at = p * part_size /\ t.kind = "SOP" /\ t.id = files[i].id
  BY <1>4
<1>6. s = t
  BY <1>1, <1>3, <1>5, FrameIsPiece
<1>7. InFrames(q.at + s.len, i, s.uoff)
  BY <1>1, <1>3, <1>4, <1>5, <1>6, BehindStart
<1>8. Seen(p, q.at + s.len) = Seen(p, q.at)
  <2>1. s \in Pieces /\ s.kind # "LFH" /\ s.at = q.at /\ s.at \in Nat /\ s.len \in Nat
    BY <1>1, <1>3, <1>5, <1>6, PieceTypes
  <2>2. q.at + s.len \in Nat /\ s.at <= q.at /\ q.at <= q.at + s.len
        /\ q.at + s.len <= s.at + s.len
    BY <1>1, <2>1
  <2> QED
    BY <1>1, <2>1, <2>2, SeenSame
<1>9. Wanted(q, p) = i
  BY <1>3 DEF Wanted, i
<1>10. ~CanOpen(i) => OpenRefused(i)
  BY <1>1, <1>4, RefusalKnown DEF i
<1> QED
  BY <1>2, <1>3, <1>4, <1>7, <1>8, <1>9, <1>10, OpensStands

\* What a handler of headers may rely on.
LEMMA ExpectingFacts ==
  ASSUME NEW p, NEW q, Working(p, q), NEW s, s = FrameAtPosition(q.at),
         q.state = "EXPECT_LOCAL_HEADER", ~NoEntryLeft(p)
  PROVE  /\ q.next_entry_idx = Cardinality(Seen(p, q.at)) /\ Active(q)
         /\ Cardinality(Seen(p, q.at)) < Cardinality(EntriesOf(cd_files, p))
         /\ \/ q.at = central_dir_start /\ s.kind = "CDFH"
            \/ s \in Pieces /\ s.at = q.at /\ s.kind \in {"LFH", "PadLFH"}
            \/ s.kind = "SOP" /\ ContinuationMissed(p)
            \/ s.kind = "Unknown" /\ InDescriptor(q.at)
<1>1. /\ Restorable /\ p \in Processors /\ q = proc[p] /\ Placement(q, p) /\ q.at \in Nat
      /\ q.next_entry_idx \in Nat
  BY WorkingFacts
<1>2. /\ q.next_entry_idx = Cardinality(Seen(p, q.at)) /\ Active(q)
      /\ ExpectsHeader(q.at, p)
  BY <1>1 DEF Placement, Active
<1>3. Cardinality(EntriesOf(cd_files, p)) \in Nat
  BY <1>1, SeenFinite
<1>4. Cardinality(Seen(p, q.at)) < Cardinality(EntriesOf(cd_files, p))
  BY <1>1, <1>2, <1>3 DEF NoEntryLeft
<1>5. \/ q.at = central_dir_start /\ s.kind = "CDFH"
      \/ s \in Pieces /\ s.at = q.at /\ s.kind \in {"LFH", "PadLFH"}
      \/ /\ s \in Pieces /\ s.at = q.at /\ s.kind = "SOP"
         /\ q.at = p * part_size /\ ContinuingFile(cd_files, p) = 0
      \/ InDescriptor(q.at) /\ s.kind = "Unknown"
  BY <1>1, <1>2, <1>4, SeenExpecting
<1> QED
  BY <1>2, <1>4, <1>5 DEF ContinuationMissed

\* The header that is read is that of the part's next entry.
LEMMA HeaderOfNextEntry ==
  ASSUME NEW p, NEW q, Working(p, q), NEW s, s = FrameAtPosition(q.at), Ready(p, s),
         OpenEntry(p, s), NEW i, i = EntryAt(cd_files, p, q.next_entry_idx)
  PROVE  /\ s \in Pieces /\ s.at = q.at /\ s.kind = "LFH"
         /\ i \in 1..Len(files) /\ i \in EntriesOf(cd_files, p)
         /\ files[i].local_header_offset = s.at /\ files[i].id = s.id
         /\ q.next_entry_idx = Cardinality(Seen(p, q.at))
<1>1. /\ Restorable /\ p \in Processors /\ p \in Nat /\ q = proc[p] /\ q.at \in Nat
      /\ q.received \in Nat /\ q.received <= PartDataEnd(p) /\ p * part_size <= q.at
  BY WorkingFacts
<1>2. q.state = "EXPECT_LOCAL_HEADER" /\ s.kind = "LFH" /\ ~NoEntryLeft(p)
  BY <1>1 DEF OpenEntry, Handles
<1>3. s \in Pieces /\ s.at = q.at /\ q.next_entry_idx = Cardinality(Seen(p, q.at))
  BY <1>2, ExpectingFacts
<1>4. PICK j \in 1..Len(files) : files[j].id = s.id /\ files[j].local_header_offset = s.at
  BY <1>1, <1>2, <1>3, HeaderRecorded
<1>5. q.at < p * part_size + part_size
  <2>1. q.at < q.received
    BY <1>1 DEF Ready
  <2>2. /\ PartDataEnd(p) \in Nat /\ p * part_size \in Nat /\ part_size \in Nat
        /\ PartDataEnd(p) <= p * part_size + part_size
    BY <1>1, PartEnds
  <2> QED
    BY <1>1, <2>1, <2>2
<1>6. j \in EntriesOf(cd_files, p)
  BY <1>1, <1>3, <1>4, <1>5, EntryInPart
<1>7. i = j
  BY <1>1, <1>3, <1>4, <1>6, NextEntryHere
<1> QED
  BY <1>2, <1>3, <1>4, <1>6, <1>7

LEMMA OpenEntryStands ==
  ASSUME NEW p, NEW q, Working(p, q), NEW s, s = FrameAtPosition(q.at), Ready(p, s),
         OpenEntry(p, s)
  PROVE  \E n : Becomes(p, n) /\ Stands(n, p)
<1>1. PICK i : i = EntryAt(cd_files, p, q.next_entry_idx)
  OBVIOUS
<1>2. PICK state : state = IF cd_files[i].kind = "symlink" THEN "READING_SYMLINK"
                           ELSE "PROCESSING_FRAMES"
  OBVIOUS
<1>3. /\ Restorable /\ p \in Processors /\ p \in Nat /\ q = proc[p] /\ Placement(q, p)
      /\ q.at \in Nat
      /\ q.state # "READING_SYMLINK" => q.symlink_bytes_read = 0
  BY WorkingFacts
<1>4. /\ q.state = "EXPECT_LOCAL_HEADER"
      /\ Opens(p, s, i, 0, state, q.next_entry_idx + 1)
  BY <1>1, <1>2, <1>3 DEF OpenEntry, Handles
<1>5. /\ s \in Pieces /\ s.at = q.at /\ s.kind = "LFH"
      /\ i \in 1..Len(files) /\ i \in EntriesOf(cd_files, p)
      /\ files[i].local_header_offset = s.at /\ files[i].id = s.id
      /\ q.next_entry_idx = Cardinality(Seen(p, q.at))
  BY <1>1, HeaderOfNextEntry
<1>6. Cardinality(Seen(p, q.at + s.len)) = q.next_entry_idx + 1
  <2>1. Cardinality(Seen(p, s.at + s.len)) = Cardinality(Seen(p, s.at)) + 1
    BY <1>3, <1>5, SeenOneMore
  <2> QED
    BY <1>5, <2>1
<1>7. cd_files[i].kind = files[i].kind
  BY <1>3, <1>5, EntryParsed
<1>8. ASSUME state = "PROCESSING_FRAMES" PROVE InFrames(q.at + s.len, i, 0)
  <2>1. files[i].kind # "symlink"
    BY <1>2, <1>7, <1>8
  <2>2. InFrames(s.at + s.len, i, 0)
    BY <1>3, <1>5, <2>1, BehindHeader
  <2> QED
    BY <1>5, <2>2
<1>9. ASSUME state = "READING_SYMLINK"
      PROVE  InTarget(q.at + s.len, i, q.symlink_bytes_read, q.symlink_source)
  <2>1. files[i].kind = "symlink"
    BY <1>2, <1>7, <1>9
  <2>2. InTarget(s.at + s.len, i, 0, q.symlink_source)
    BY <1>3, <1>5, <2>1, BehindSymlinkHeader
  <2> QED
    BY <1>3, <1>4, <1>5, <2>2
<1>10. state \in {"PROCESSING_FRAMES", "READING_SYMLINK"} /\ Active(q)
  BY <1>2, <1>4 DEF Active
<1>11. Wanted(q, p) = i
  <2> SUFFICES ASSUME ContinuingFile(cd_files, p) # 0, q.at = p * part_size PROVE FALSE
    BY <1>1 DEF Wanted
  <2>1. PICK t \in Pieces : t.at = p * part_size /\ t.kind = "SOP"
    BY <1>3, Continues
  <2>2. s = t
    BY <1>3, <2>1, FrameIsPiece
  <2> QED
    BY <1>5, <2>1, <2>2
<1>12. ~CanOpen(i) => OpenRefused(i)
  <2>1. ~NoEntryLeft(p)
    BY <1>3, <1>4 DEF OpenEntry, Handles
  <2>2. Begun(i) => \E r \in Processors : ContinuingFile(cd_files, r) = i
    BY <1>1, <1>3, <2>1, NextNotBegun
  <2> QED
    BY <1>5, <2>2, RefusalKnown
<1> QED
  BY <1>4, <1>5, <1>6, <1>8, <1>9, <1>10, <1>11, <1>12, OpensStands

\* What a handler of frames may rely on.
LEMMA ProcessingFacts ==
  ASSUME NEW p, NEW q, Working(p, q), NEW s, s = FrameAtPosition(q.at),
         q.state = "PROCESSING_FRAMES"
  PROVE  /\ q.next_entry_idx = Cardinality(Seen(p, q.at)) /\ Active(q)
         /\ q.file \in 1..Len(files) /\ files[q.file].kind # "symlink"
         /\ InFrames(q.at, q.file, q.uncompressed_offset)
         /\ \/ q.at = central_dir_start /\ s.kind = "CDFH"
            \/ s \in Pieces /\ s.at = q.at /\ s.kind \in {"LFH", "PadLFH"}
            \/ /\ s \in Pieces /\ s.at = q.at /\ s.kind \in {"Frame", "SOP", "DD", "Pad"}
               /\ s.id = files[q.file].id
               /\ s.kind = "Frame" => s.uoff = q.uncompressed_offset
<1>1. /\ Restorable /\ p \in Processors /\ q = proc[p] /\ Placement(q, p) /\ q.at \in Nat
      /\ q.uncompressed_offset \in Nat
      /\ HasFile(q) => q.file \in 1..Len(files)
  BY WorkingFacts
<1>2. /\ q.next_entry_idx = Cardinality(Seen(p, q.at)) /\ Active(q)
      /\ q.file \in 1..Len(files)
      /\ InFrames(q.at, q.file, q.uncompressed_offset)
  BY <1>1 DEF Placement, Active, HasFile
<1>3. files[q.file].kind # "symlink"
  BY <1>2 DEF InFrames
<1>4. \/ q.at = central_dir_start /\ s.kind = "CDFH"
      \/ s \in Pieces /\ s.at = q.at /\ s.kind \in {"LFH", "PadLFH"}
      \/ /\ s \in Pieces /\ s.at = q.at /\ s.kind \in {"Frame", "SOP", "DD", "Pad"}
         /\ s.id = files[q.file].id
         /\ s.kind = "Frame" => s.uoff = q.uncompressed_offset
  BY <1>1, <1>2, SeenInFrames
<1> QED
  BY <1>2, <1>3, <1>4

LEMMA SeenPast ==
  ASSUME Restorable, NEW p, NEW s \in Pieces, s.kind # "LFH"
  PROVE  Seen(p, s.at + s.len) = Seen(p, s.at)
<1>1. s.at \in Nat /\ s.at + s.len \in Nat /\ s.at <= s.at /\ s.at <= s.at + s.len
      /\ s.at + s.len <= s.at + s.len
  BY PieceTypes
<1> QED
  BY <1>1, SeenSame

\* Padding, data and Start-of-Part frames.
LEMMA SkipPaddingStands ==
  ASSUME NEW p, NEW q, Working(p, q), NEW s, s = FrameAtPosition(q.at), SkipPadding(p, s)
  PROVE  \E n : Becomes(p, n) /\ Stands(n, p)
<1> DEFINE n == Past(p, s)
<1>1. Restorable /\ p \in Processors /\ q = proc[p] /\ q \in ProcessorStates
      /\ q.uncompressed_offset \in Nat
  BY WorkingFacts
<1>2. Becomes(p, n)
  BY DEF SkipPadding
<1>3. /\ n.at = q.at + s.len /\ n.file = q.file /\ n.state = q.state
      /\ n.next_entry_idx = q.next_entry_idx
      /\ n.uncompressed_offset = q.uncompressed_offset /\ n.finalized = q.finalized
      /\ n.error = q.error
  BY <1>1 DEF Past, ProcessorStates
<1> HIDE DEF n
<1>4. CASE q.state = "EXPECT_LOCAL_HEADER"
  <2>1. ~NoEntryLeft(p) /\ s.kind \in {"Pad", "PadLFH"}
    BY <1>1, <1>4 DEF SkipPadding, Handles
  <2>2. /\ s \in Pieces /\ s.at = q.at /\ s.kind = "PadLFH" /\ Active(q)
        /\ q.next_entry_idx = Cardinality(Seen(p, q.at))
    BY <1>4, <2>1, ExpectingFacts
  <2>3. Between(s.at + s.len)
    BY <1>1, <2>2, BehindEntry
  <2>4. ExpectsHeader(n.at, p)
    BY <1>3, <2>2, <2>3 DEF ExpectsHeader
  <2>5. n.next_entry_idx = Cardinality(Seen(p, n.at))
    BY <1>1, <1>3, <2>2, SeenPast
  <2>6. Stands(n, p)
    BY <1>3, <1>4, <2>2, <2>4, <2>5, GoesOn
  <2> QED
    BY <1>2, <2>6
<1>5. CASE q.state # "EXPECT_LOCAL_HEADER"
  <2>1. q.state = "PROCESSING_FRAMES" /\ s.kind = "Pad"
    BY <1>1, <1>5 DEF SkipPadding, Handles
  <2>2. /\ s \in Pieces /\ s.at = q.at /\ Active(q) /\ q.file \in 1..Len(files)
        /\ InFrames(s.at, q.file, q.uncompressed_offset)
        /\ q.next_entry_idx = Cardinality(Seen(p, q.at))
    BY <2>1, ProcessingFacts
  <2>3. InFrames(s.at + s.len, q.file, q.uncompressed_offset)
    BY <1>1, <2>1, <2>2, NextPiece
  <2>4. n.next_entry_idx = Cardinality(Seen(p, n.at))
    BY <1>1, <1>3, <2>1, <2>2, SeenPast
  <2>5. Stands(n, p)
    BY <1>3, <2>1, <2>2, <2>3, <2>4, GoesOn
  <2> QED
    BY <1>2, <2>5
<1> QED
  BY <1>4, <1>5

LEMMA FrameStands ==
  ASSUME NEW p, NEW q, Working(p, q), NEW s, s = FrameAtPosition(q.at),
         q.state = "PROCESSING_FRAMES", s.kind \in {"Frame", "SOP"}, NEW offset,
         offset = (IF s.kind = "SOP" THEN s.uoff ELSE q.uncompressed_offset + s.ulen),
         Becomes(p, [Past(p, s) EXCEPT !.uncompressed_offset = offset])
  PROVE  \E n : Becomes(p, n) /\ Stands(n, p)
<1> DEFINE n == [Past(p, s) EXCEPT !.uncompressed_offset = offset]
<1>1. Restorable /\ p \in Processors /\ q = proc[p] /\ q \in ProcessorStates
      /\ q.uncompressed_offset \in Nat
  BY WorkingFacts
<1>2. /\ n.at = q.at + s.len /\ n.file = q.file /\ n.state = q.state
      /\ n.next_entry_idx = q.next_entry_idx
      /\ n.uncompressed_offset = offset /\ n.finalized = q.finalized
      /\ n.error = q.error
  BY <1>1 DEF Past, ProcessorStates
<1>3. Becomes(p, n)
  OBVIOUS
<1> HIDE DEF n
<1>4. /\ s \in Pieces /\ s.at = q.at /\ Active(q) /\ q.file \in 1..Len(files)
      /\ InFrames(s.at, q.file, q.uncompressed_offset)
      /\ q.next_entry_idx = Cardinality(Seen(p, q.at))
  BY ProcessingFacts
<1>5. InFrames(s.at + s.len, q.file, offset)
  <2>1. /\ s.kind = "SOP" => InFrames(s.at + s.len, q.file, s.uoff)
        /\ s.kind = "Frame" =>
             InFrames(s.at + s.len, q.file, q.uncompressed_offset + s.ulen)
    BY <1>1, <1>4, NextPiece
  <2> QED
    BY <2>1
<1>6. n.next_entry_idx = Cardinality(Seen(p, n.at))
  BY <1>1, <1>2, <1>4, SeenPast
<1>7. Stands(n, p)
  BY <1>2, <1>4, <1>5, <1>6, GoesOn
<1> QED
  BY <1>3, <1>7

LEMMA WriteDataStands ==
  ASSUME NEW p, NEW q, Working(p, q), NEW s, s = FrameAtPosition(q.at), WriteData(p, s)
  PROVE  \E n : Becomes(p, n) /\ Stands(n, p)
<1>1. q = proc[p] /\ q \in ProcessorStates
  BY WorkingFacts
<1>2. /\ q.state = "PROCESSING_FRAMES" /\ s.kind = "Frame"
      /\ \/ Becomes(p, [Past(p, s) EXCEPT !.uncompressed_offset = @ + s.ulen])
         \/ Fails(p, "BTRFS_WRITE")
  BY <1>1 DEF WriteData, Handles
<1>3. CASE Fails(p, "BTRFS_WRITE")
  BY <1>2, <1>3, FailureStands DEF Active
<1>4. CASE Becomes(p, [Past(p, s) EXCEPT !.uncompressed_offset = @ + s.ulen])
  <2>1. Past(p, s).uncompressed_offset = q.uncompressed_offset
    BY <1>1 DEF Past, ProcessorStates
  <2>2. PICK offset : offset = q.uncompressed_offset + s.ulen
    OBVIOUS
  <2>3. Becomes(p, [Past(p, s) EXCEPT !.uncompressed_offset = offset])
    BY <1>4, <2>1, <2>2, Zenon
  <2>4. offset = IF s.kind = "SOP" THEN s.uoff ELSE q.uncompressed_offset + s.ulen
    BY <1>2, <2>2
  <2> QED
    BY <1>2, <2>3, <2>4, FrameStands
<1> QED
  BY <1>2, <1>3, <1>4

LEMMA StartOfPartStands ==
  ASSUME NEW p, NEW q, Working(p, q), NEW s, s = FrameAtPosition(q.at), StartOfPartInFile(p, s)
  PROVE  \E n : Becomes(p, n) /\ Stands(n, p)
<1>1. q = proc[p] /\ Restorable
  BY WorkingFacts
<1>2. q.state = "PROCESSING_FRAMES" /\ s.kind = "SOP"
  BY <1>1 DEF StartOfPartInFile, Handles
<1>3. s \in Pieces /\ s.at = q.at
  BY <1>2, ProcessingFacts
<1>4. q.at % PART_SIZE = 0
  BY <1>1, <1>2, <1>3, OnBoundary
<1>5. Becomes(p, [Past(p, s) EXCEPT !.uncompressed_offset = s.uoff])
  BY <1>1, <1>4 DEF StartOfPartInFile, SopOffset
<1>6. PICK offset : offset = s.uoff
  OBVIOUS
<1>7. /\ Becomes(p, [Past(p, s) EXCEPT !.uncompressed_offset = offset])
      /\ offset = IF s.kind = "SOP" THEN s.uoff ELSE q.uncompressed_offset + s.ulen
  BY <1>2, <1>5, <1>6
<1> QED
  BY <1>2, <1>7, FrameStands

\* The directory, or the last entry of the part.
LEMMA DoneStands ==
  ASSUME NEW p, NEW q, Working(p, q), NEW n, n.state = "DONE", n.at = n.received,
         n.error = q.error, q.state # "ERROR"
  PROVE  Stands(n, p)
<1>1. n.error = "none"
  BY DEF Working, Stands, Placement
<1>2. Placement(n, p)
  BY <1>1 DEF Placement, Active
<1>3. Explained(n, p)
  BY <1>1 DEF Explained
<1> QED
  BY <1>2, <1>3 DEF Stands

LEMMA ReachDirectoryStands ==
  ASSUME NEW p, NEW q, Working(p, q), NEW s, ReachDirectory(p, s) \/ StopAtLastEntry(p)
  PROVE  \E n : Becomes(p, n) /\ Stands(n, p)
<1>1. q = proc[p] /\ q \in ProcessorStates
  BY WorkingFacts
<1>2. CASE ReachDirectory(p, s)
  <2> DEFINE n == [WithoutFile(q) EXCEPT !.state = "DONE", !.at = q.received]
  <2>1. Becomes(p, n)
    BY <1>1, <1>2 DEF ReachDirectory
  <2>2. /\ n.state = "DONE" /\ n.at = n.received /\ n.error = q.error
        /\ q.state # "ERROR"
    BY <1>1, <1>2 DEF WithoutFile, ProcessorStates, ReachDirectory, Handles
  <2> HIDE DEF n
  <2> QED
    BY <2>1, <2>2, DoneStands
<1>3. CASE StopAtLastEntry(p)
  <2> DEFINE n == [q EXCEPT !.state = "DONE", !.at = q.received]
  <2>1. Becomes(p, n)
    BY <1>1, <1>3 DEF StopAtLastEntry
  <2>2. /\ n.state = "DONE" /\ n.at = n.received /\ n.error = q.error
        /\ q.state # "ERROR"
    BY <1>1, <1>3 DEF ProcessorStates, StopAtLastEntry
  <2> HIDE DEF n
  <2> QED
    BY <2>1, <2>2, DoneStands
<1> QED
  BY <1>2, <1>3

\* The header of the next entry ends a file without a descriptor.
LEMMA NextHeaderStands ==
  ASSUME NEW p, NEW q, Working(p, q), NEW s, s = FrameAtPosition(q.at), NextHeader(p, s)
  PROVE  \E n : Becomes(p, n) /\ Stands(n, p)
<1> DEFINE n == [WithoutFile(q) EXCEPT !.state = "EXPECT_LOCAL_HEADER"]
<1>1. q = proc[p] /\ q \in ProcessorStates
  BY WorkingFacts
<1>2. Becomes(p, n) /\ q.state = "PROCESSING_FRAMES" /\ s.kind \in {"LFH", "PadLFH"}
  BY <1>1 DEF NextHeader, Handles
<1>3. /\ n.state = "EXPECT_LOCAL_HEADER" /\ n.at = q.at /\ n.error = q.error
      /\ n.finalized = q.finalized
      /\ n.next_entry_idx = q.next_entry_idx
  BY <1>1 DEF WithoutFile, ProcessorStates
<1> HIDE DEF n
<1>4. /\ s \in Pieces /\ s.at = q.at /\ Active(q)
      /\ q.next_entry_idx = Cardinality(Seen(p, q.at))
  BY <1>2, ProcessingFacts
<1>5. ExpectsHeader(n.at, p)
  BY <1>2, <1>3, <1>4 DEF ExpectsHeader, Between
<1>6. Stands(n, p)
  BY <1>3, <1>4, <1>5, GoesOn
<1> QED
  BY <1>2, <1>6

\* The descriptor is stepped over, or left in the middle.
LEMMA EndOfFileStands ==
  ASSUME NEW p, NEW q, Working(p, q), NEW s, s = FrameAtPosition(q.at), Ready(p, s),
         EndOfFile(p, s)
  PROVE  \E n : Becomes(p, n) /\ Stands(n, p)
<1> DEFINE end == q.at + ParsedDescriptorSize(cd_files[q.file])
           at == Min({end, q.received})
           n == [WithoutFile(q) EXCEPT !.at = at, !.state = "EXPECT_LOCAL_HEADER"]
<1>1. /\ Restorable /\ p \in Processors /\ q = proc[p] /\ q \in ProcessorStates
      /\ q.at \in Nat /\ q.received \in Nat
  BY WorkingFacts
<1>2. q.state = "PROCESSING_FRAMES" /\ s.kind = "DD" /\ q.at < q.received
  BY <1>1 DEF EndOfFile, Handles, Ready
<1>4. Becomes(p, n)
  BY <1>1 DEF EndOfFile
<1>5. /\ n.state = "EXPECT_LOCAL_HEADER" /\ n.at = at /\ n.error = q.error
      /\ n.finalized = q.finalized
      /\ n.next_entry_idx = q.next_entry_idx
  BY <1>1 DEF WithoutFile, ProcessorStates
<1>6. /\ s \in Pieces /\ s.at = q.at /\ Active(q) /\ q.file \in 1..Len(files)
      /\ s.id = files[q.file].id
      /\ q.next_entry_idx = Cardinality(Seen(p, q.at))
  BY <1>2, ProcessingFacts
<1>7. end = s.at + s.len /\ end \in Nat /\ s.at < end /\ s.len \in Nat
  <2>1. s.len = ParsedDescriptorSize(cd_files[q.file])
    BY <1>1, <1>2, <1>6, OwnKind
  <2>2. s.at \in Nat /\ s.len \in Nat \ {0}
    BY <1>1, <1>6, PieceTypes
  <2>3. end = s.at + s.len
    BY <1>6, <2>1
  <2> HIDE DEF end
  <2> QED
    BY <2>2, <2>3
<1> HIDE DEF end, n
<1>8. at = IF end <= q.received THEN end ELSE q.received
  <2>1. end \in Int /\ q.received \in Int
    BY <1>1, <1>7
  <2> QED
    BY <2>1, MinMaxOfTwo, Zenon
<1> HIDE DEF at
<1>9. at \in Nat /\ s.at <= s.at /\ s.at < at /\ s.at <= at /\ at <= s.at + s.len
  BY <1>1, <1>2, <1>6, <1>7, <1>8
<1>10. Seen(p, at) = Seen(p, s.at)
  <2>1. s.at \in Nat /\ s.kind # "LFH"
    BY <1>1, <1>2, <1>6
  <2> QED
    BY <1>1, <1>6, <1>9, <2>1, SeenSame
<1>11. ExpectsHeader(at, p)
  <2>1. CASE end <= q.received
    <3>1. Between(s.at + s.len)
      BY <1>1, <1>2, <1>6, BehindEntry
    <3> QED
      BY <1>7, <1>8, <2>1, <3>1 DEF ExpectsHeader
  <2>2. CASE ~(end <= q.received)
    <3>1. at = q.received /\ end > q.received
      BY <1>1, <1>7, <1>8, <2>2
    <3>2. InDescriptor(at)
      BY <1>2, <1>6, <1>7, <1>9, <3>1 DEF InDescriptor
    <3> QED
      BY <3>1, <3>2 DEF ExpectsHeader
  <2> QED
    BY <2>1, <2>2
<1>12. Stands(n, p)
  BY <1>5, <1>6, <1>10, <1>11, GoesOn
<1> QED
  BY <1>4, <1>12

\* A frame that is refused.
LEMMA RejectFrameStands ==
  ASSUME NEW p, NEW q, Working(p, q), NEW s, s = FrameAtPosition(q.at), RejectFrame(p, s)
  PROVE  \E n : Becomes(p, n) /\ Stands(n, p)
<1>1. /\ Restorable /\ p \in Processors /\ q = proc[p] /\ Placement(q, p) /\ ProcessorOK(q, p)
  BY WorkingFacts
<1>2. Fails(p, "INVALID_FRAME")
  BY DEF RejectFrame
<1>3. CASE q.state = "CONTINUING_FILE"
  <2>1. q.at = p * part_size /\ ContinuingFile(cd_files, p) # 0
    BY <1>1, <1>3 DEF Placement, ProcessorOK
  <2>2. PICK t \in Pieces : t.at = p * part_size /\ t.kind = "SOP"
    BY <1>1, <2>1, Continues
  <2>3. s = t
    BY <1>1, <2>1, <2>2, FrameIsPiece
  <2> QED
    BY <1>1, <1>3, <2>2, <2>3 DEF RejectFrame, Handles
<1>4. CASE q.state = "EXPECT_LOCAL_HEADER"
  <2>1. ~NoEntryLeft(p) /\ s.kind \in {"Frame", "SOP", "DD", "Unknown"}
    BY <1>1, <1>4 DEF RejectFrame, Handles
  <2>2. /\ Active(q)
        /\ ContinuationMissed(p) \/ InDescriptor(q.at)
    BY <1>4, <2>1, ExpectingFacts
  <2> QED
    BY <1>2, <2>2, FailureStands
<1>5. CASE q.state = "PROCESSING_FRAMES"
  <2>1. s.kind = "Unknown" \/ (s.kind = "Frame" /\ ~Regular(q.file))
    BY <1>1, <1>5 DEF RejectFrame, Handles
  <2>2. /\ s.kind = "Frame" /\ s \in Pieces /\ s.id = files[q.file].id
        /\ q.file \in 1..Len(files)
    BY <1>5, <2>1, ProcessingFacts
  <2>3. files[q.file].kind = "file"
    BY <1>1, <2>2, OwnKind
  <2>4. cd_files[q.file].kind = "file" /\ q.file # 0
    BY <1>1, <2>2, <2>3, EntryParsed
  <2> QED
    BY <2>1, <2>2, <2>4 DEF Regular
<1>6. q.state \in {"CONTINUING_FILE", "EXPECT_LOCAL_HEADER", "PROCESSING_FRAMES"}
  BY <1>1 DEF RejectFrame, Handles
<1> QED
  BY <1>3, <1>4, <1>5, <1>6

\* Reading on in the target c: read is the record before a file that is
\* complete is closed.
TargetStep(p, q, read, c) ==
  /\ q.file \in 1..Len(files) /\ files[q.file].kind = "symlink"
  /\ c.kind = "Content" /\ c.id = files[q.file].id
  /\ c.len = files[q.file].uncompressed_size
  /\ c.at <= q.at /\ q.at <= read.at
  /\ read.at = c.at + read.symlink_bytes_read
  /\ read.file = q.file /\ read.symlink_source = files[q.file].id
  /\ read.state = "READING_SYMLINK" /\ read.next_entry_idx = q.next_entry_idx
  /\ read.finalized = q.finalized /\ read.error = q.error
  /\ \/ /\ read.symlink_bytes_read = c.len
        /\ Becomes(p, [WithoutFile(read) EXCEPT !.state = "EXPECT_LOCAL_HEADER"])
        /\ out' = Closed(read)
     \/ /\ read.symlink_bytes_read < c.len
        /\ Becomes(p, read) /\ UNCHANGED out

\* What is read of a target is the next piece of the symlink's own.
LEMMA TargetRead ==
  ASSUME NEW p, NEW q, Working(p, q), ReadSymlink(p)
  PROVE  \E read \in ProcessorStates, c \in Pieces :
           TargetStep(p, q, read, c)
<1> DEFINE size == cd_files[q.file].uncompressed_size
           a == q.received - q.at
           b == size - q.symlink_bytes_read
           k == Min({a, b})
           sources == {s \in layout : s.kind = "Content" /\ s.at = q.at}
           source == IF q.symlink_bytes_read > 0 \/ sources = {} THEN q.symlink_source
                     ELSE (CHOOSE s \in sources : TRUE).id
           read == [q EXCEPT !.at = @ + k, !.symlink_bytes_read = @ + k,
                             !.symlink_source =
                                IF q.symlink_bytes_read > 0 \/ sources = {} THEN @
                                ELSE (CHOOSE s \in sources : TRUE).id]
<1>1. /\ Restorable /\ p \in Processors /\ q = proc[p] /\ Placement(q, p)
      /\ q \in ProcessorStates /\ q.at \in Nat /\ q.received \in Nat /\ q.at <= q.received
      /\ q.symlink_bytes_read \in Nat
      /\ HasFile(q) => q.file \in 1..Len(files)
  BY WorkingFacts
<1>2. q.state = "READING_SYMLINK"
  BY <1>1 DEF ReadSymlink
<1>3. /\ read.symlink_bytes_read >= size =>
           /\ Becomes(p, [WithoutFile(read) EXCEPT !.state = "EXPECT_LOCAL_HEADER"])
           /\ out' = Closed(read)
      /\ ~(read.symlink_bytes_read >= size) => Becomes(p, read) /\ UNCHANGED out
  BY <1>1 DEF ReadSymlink
<1>4. q.file \in 1..Len(files)
      /\ InTarget(q.at, q.file, q.symlink_bytes_read, q.symlink_source)
  BY <1>1, <1>2 DEF HasFile, Placement
<1>5. PICK c \in Pieces : /\ c.kind = "Content" /\ c.id = files[q.file].id
                          /\ c.len = files[q.file].uncompressed_size
                          /\ q.at = c.at + q.symlink_bytes_read
                          /\ q.symlink_bytes_read < c.len
                          /\ q.symlink_bytes_read > 0 => q.symlink_source = files[q.file].id
  BY <1>4 DEF InTarget
<1>6. size = c.len /\ c.at \in Nat /\ c.len \in Nat \ {0} /\ c.id \in Nat
  BY <1>1, <1>4, <1>5, EntryParsed, PieceTypes
<1>7. k \in Nat /\ k <= b
  <2>1. a \in Nat /\ b \in Nat
    BY <1>1, <1>5, <1>6
  <2>2. a \in Int /\ b \in Int
    BY <2>1
  <2> HIDE DEF a, b
  <2>3. Min({a, b}) = IF a <= b THEN a ELSE b
    BY <2>2, MinMaxOfTwo, Zenon
  <2> QED
    BY <2>1, <2>3
<1>8. source = files[q.file].id
  <2>1. CASE q.symlink_bytes_read > 0
    BY <1>5, <2>1
  <2>2. CASE ~(q.symlink_bytes_read > 0)
    <3>1. q.at = c.at /\ c \in layout
      BY <1>1, <1>5, <1>6, <2>2, PieceTypes
    <3>2. c \in sources
      BY <1>5, <3>1
    <3>3. \A s \in sources : s = c
      <4> SUFFICES ASSUME NEW s \in sources PROVE s = c
        OBVIOUS
      <4>1. s \in layout /\ s.kind = "Content" /\ s.at = c.at
        BY <3>1
      <4>2. s \in Pieces
        BY <1>1, <4>1, PieceBelow
      <4>3. c.at <= s.at /\ s.at < c.at + c.len
        BY <1>6, <4>1
      <4> QED
        BY <1>1, <4>2, <4>3, OnePiece
    <3>4. (CHOOSE s \in sources : TRUE) \in sources
      BY <3>2, Zenon
    <3> HIDE DEF sources
    <3>5. (CHOOSE s \in sources : TRUE) = c
      BY <3>3, <3>4, Zenon
    <3> QED
      BY <1>5, <2>2, <3>2, <3>5
  <2> QED
    BY <2>1, <2>2
<1>9. read = [q EXCEPT !.at = q.at + k, !.symlink_bytes_read = q.symlink_bytes_read + k,
                       !.symlink_source = source]
  BY <1>1, Zenon
<1> HIDE DEF k, source, sources, size, read
<1>10. PICK at \in Nat, m \in Nat : at = q.at + k /\ m = q.symlink_bytes_read + k
  <2>1. q.at + k \in Nat /\ q.symlink_bytes_read + k \in Nat
    BY <1>1, <1>7
  <2> QED
    BY <2>1
<1>11. read = [q EXCEPT !.at = at, !.symlink_bytes_read = m, !.symlink_source = source]
  BY <1>9, <1>10
<1>12. read \in ProcessorStates
  <2>1. source \in Nat
    BY <1>5, <1>6, <1>8
  <2> QED
    BY <1>1, <1>11, <2>1 DEF ProcessorStates
<1>13. /\ read.at = at /\ read.symlink_bytes_read = m /\ read.symlink_source = source
       /\ read.file = q.file /\ read.state = "READING_SYMLINK"
       /\ read.next_entry_idx = q.next_entry_idx
       /\ read.finalized = q.finalized /\ read.error = q.error
  BY <1>1, <1>2, <1>11 DEF ProcessorStates
<1>14. at = c.at + m /\ m <= c.len /\ c.at <= q.at /\ q.at <= at
  <2>1. PICK y, z, l, w : y = q.at /\ z = q.symlink_bytes_read /\ l = c.len /\ w = c.at
    OBVIOUS
  <2>2. y \in Nat /\ z \in Nat /\ l \in Nat /\ w \in Nat /\ k \in Nat
    BY <1>1, <1>6, <1>7, <2>1
  <2>3. k <= l - z
    BY <1>6, <1>7, <2>1
  <2>4. y = w + z /\ at = y + k /\ m = z + k
    BY <1>5, <1>10, <2>1
  <2>5. at = w + m /\ m <= l /\ w <= y /\ y <= at
    BY <2>2, <2>3, <2>4
  <2> QED
    BY <2>1, <2>5
<1>15. files[q.file].kind = "symlink"
  BY <1>4 DEF InTarget
<1>16. \/ /\ m = c.len
          /\ Becomes(p, [WithoutFile(read) EXCEPT !.state = "EXPECT_LOCAL_HEADER"])
          /\ out' = Closed(read)
       \/ /\ m < c.len
          /\ Becomes(p, read) /\ UNCHANGED out
  <2>1. CASE m >= c.len
    <3>1. m = c.len
      BY <1>6, <1>14, <2>1
    <3> QED
      BY <1>3, <1>6, <1>13, <2>1, <3>1
  <2>2. CASE ~(m >= c.len)
    <3>1. m < c.len
      BY <1>6, <2>2
    <3> QED
      BY <1>3, <1>6, <1>13, <2>2, <3>1
  <2> QED
    BY <2>1, <2>2
<1> QED
  <2>1. read.at = c.at + read.symlink_bytes_read /\ c.at <= q.at /\ q.at <= read.at
    BY <1>13, <1>14
  <2>2. TargetStep(p, q, read, c)
    BY <1>4, <1>5, <1>8, <1>13, <1>15, <1>16, <2>1 DEF TargetStep
  <2> QED
    BY <1>12, <2>2
LEMMA ReadSymlinkStands ==
  ASSUME NEW p, NEW q, Working(p, q), ReadSymlink(p)
  PROVE  \E n : Becomes(p, n) /\ Stands(n, p)
<1>1. PICK read \in ProcessorStates, c \in Pieces :
        TargetStep(p, q, read, c)
  BY TargetRead, Zenon
<1>2. /\ Restorable /\ p \in Processors /\ q = proc[p] /\ Placement(q, p) /\ q.at \in Nat
  BY WorkingFacts
<1>3. q.state = "READING_SYMLINK"
  BY <1>2 DEF ReadSymlink
<1>4. Active(q) /\ q.next_entry_idx = Cardinality(Seen(p, q.at))
  BY <1>2, <1>3 DEF Active, Placement
<1>5. /\ c.at \in Nat /\ c.len \in Nat /\ read.at \in Nat /\ read.symlink_bytes_read \in Nat
      /\ read.symlink_bytes_read <= c.len
  <2>1. c.at \in Nat /\ c.len \in Nat
    BY <1>2, PieceTypes
  <2>2. read.at \in Nat /\ read.symlink_bytes_read \in Nat
    BY DEF ProcessorStates
  <2>3. read.symlink_bytes_read = c.len \/ read.symlink_bytes_read < c.len
    BY <1>1 DEF TargetStep
  <2>4. read.symlink_bytes_read <= c.len
    BY <2>1, <2>2, <2>3
  <2> QED
    BY <2>1, <2>2, <2>4
<1>6. Seen(p, read.at) = Seen(p, q.at)
  <2>1. c.kind # "LFH" /\ c.at <= q.at /\ q.at <= read.at /\ read.at <= c.at + c.len
    BY <1>1, <1>5 DEF TargetStep
  <2> QED
    BY <1>2, <1>5, <2>1, SeenSame
<1>7. CASE /\ read.symlink_bytes_read = c.len
           /\ Becomes(p, [WithoutFile(read) EXCEPT !.state = "EXPECT_LOCAL_HEADER"])
  <2> DEFINE n == [WithoutFile(read) EXCEPT !.state = "EXPECT_LOCAL_HEADER"]
  <2>1. /\ n.state = "EXPECT_LOCAL_HEADER" /\ n.at = read.at /\ n.error = read.error
        /\ n.finalized = read.finalized
        /\ n.next_entry_idx = read.next_entry_idx
    BY DEF WithoutFile, ProcessorStates
  <2> HIDE DEF n
  <2>2. Between(c.at + c.len)
    BY <1>1, <1>2, BehindEntry DEF TargetStep
  <2>3. ExpectsHeader(n.at, p)
    BY <1>1, <1>7, <2>1, <2>2 DEF ExpectsHeader, TargetStep
  <2>4. Stands(n, p)
    BY <1>1, <1>4, <1>6, <2>1, <2>3, GoesOn DEF TargetStep
  <2> QED
    BY <1>7, <2>4 DEF n
<1>8. CASE read.symlink_bytes_read < c.len /\ Becomes(p, read)
  <2>1. InTarget(read.at, read.file, read.symlink_bytes_read, read.symlink_source)
    BY <1>1, <1>8 DEF InTarget, TargetStep
  <2>2. Stands(read, p)
    BY <1>1, <1>4, <1>6, <2>1, GoesOn DEF TargetStep
  <2> QED
    BY <1>8, <2>2
<1> QED
  BY <1>1, <1>7, <1>8 DEF TargetStep

\* More bytes.
LEMMA ReceiveStands ==
  ASSUME NEW p, NEW q, Working(p, q), NEW k \in ChunkSizes, ReceiveChunk(p, k)
  PROVE  \E n : Becomes(p, n) /\ Stands(n, p)
<1>1. q = proc[p] /\ q \in ProcessorStates /\ Placement(q, p) /\ Explained(q, p)
  BY WorkingFacts
<1>2. PICK received : Becomes(p, [q EXCEPT !.received = received])
  BY <1>1 DEF ReceiveChunk
<1> DEFINE n == [q EXCEPT !.received = received]
<1>3. /\ n.at = q.at /\ n.file = q.file /\ n.state = q.state
      /\ n.next_entry_idx = q.next_entry_idx
      /\ n.uncompressed_offset = q.uncompressed_offset /\ n.finalized = q.finalized
      /\ n.symlink_bytes_read = q.symlink_bytes_read /\ n.symlink_source = q.symlink_source
      /\ n.error = q.error
  BY <1>1 DEF ProcessorStates
<1>4. q.state # "DONE"
  BY <1>1 DEF ReceiveChunk
<1> HIDE DEF n
<1>5. Placement(n, p)
  BY <1>1, <1>3, <1>4 DEF Placement, Active
<1>6. Explained(n, p)
  BY <1>1, <1>3 DEF Explained, Wanted
<1> QED
  BY <1>2, <1>5, <1>6 DEF Stands, n

(***************************************************************************)
(* The end of a part: no processor is left with bytes it cannot handle.    *)
(***************************************************************************)
LEMMA NeededFits ==
  ASSUME Restorable, NEW s \in Pieces, s.kind # "Content", NEW state
  PROVE  BytesNeeded(s, state) \in Nat /\ BytesNeeded(s, state) <= s.len
<1>1. s.len \in Nat /\ Sized(s) /\ s.kind # "CDFH"
  BY PieceTypes, ArchiveWritten
<1>2. s.kind # "Unknown"
  BY PieceTypes DEF Structures, Kinds
<1>3. CASE s.kind = "DD"
  BY <1>1, <1>3 DEF BytesNeeded, Sized
<1>4. CASE s.kind \in {"LFH", "PadLFH"} /\ state # "EXPECT_LOCAL_HEADER"
  BY <1>1, <1>4 DEF BytesNeeded, Sized
<1>5. CASE s.kind # "DD" /\ ~(s.kind \in {"LFH", "PadLFH"} /\ state # "EXPECT_LOCAL_HEADER")
  BY <1>1, <1>2, <1>5 DEF BytesNeeded
<1> QED
  BY <1>3, <1>4, <1>5

LEMMA PieceComplete ==
  ASSUME NEW p, NEW q, Working(p, q), q.at < q.received, q.received = PartDataEnd(p),
         NEW s \in Pieces, s.kind # "Content", s.at = q.at
  PROVE  q.received - q.at >= BytesNeeded(s, q.state)
<1>1. /\ Restorable /\ p \in Processors /\ q.at \in Nat /\ q.received \in Nat
      /\ p * part_size \in Nat /\ p * part_size <= q.at
  BY WorkingFacts
<1>2. PartDataEnd(p) <= p * part_size + part_size /\ part_size \in Nat
  BY <1>1, PartEnds
<1>3. s.at < p * part_size + part_size
  BY <1>1, <1>2
<1>4. s.at + s.len <= PartDataEnd(p)
  BY <1>1, <1>3, PieceInPart
<1>5. BytesNeeded(s, q.state) \in Nat /\ BytesNeeded(s, q.state) <= s.len /\ s.len \in Nat
  BY <1>1, NeededFits, PieceTypes
<1>6. PICK b \in Nat : b = BytesNeeded(s, q.state)
  BY <1>5
<1>7. q.received - q.at >= b
  BY <1>1, <1>4, <1>5, <1>6
<1> QED
  BY <1>6, <1>7

LEMMA DirectoryComplete ==
  ASSUME NEW p, NEW q, Working(p, q), q.at < q.received, q.received = PartDataEnd(p),
         q.at = central_dir_start
  PROVE  q.received - q.at >= 4
<1>1. /\ Restorable /\ p \in Processors /\ q.at \in Nat /\ q.received \in Nat
      /\ p \in Nat /\ p * part_size \in Nat /\ p * part_size <= q.at
  BY WorkingFacts
<1>2. /\ PartDataEnd(p) <= p * part_size + part_size /\ part_size \in Nat
      /\ central_dir_start < p * part_size + part_size =>
              PartDataEnd(p) \in {central_dir_start, p * part_size + part_size, pos}
  BY <1>1, PartEnds
<1>3. PICK e \in Nat : e = p * part_size + part_size
  BY <1>1, <1>2
<1>4. q.received = e \/ q.received = pos
  BY <1>1, <1>2, <1>3
<1>5. central_dir_start + 106 <= pos /\ SpaceUntilBoundary(central_dir_start) >= 44
      /\ pos \in Nat
  BY <1>1, DirectoryStarts, ArchiveWritten
<1>6. central_dir_start + SpaceUntilBoundary(central_dir_start) <= p * part_size + part_size
  BY <1>1, <1>2, BoundaryInPart
<1>7. SpaceUntilBoundary(central_dir_start) \in Int
  BY <1>1, FormatAssumption DEF SpaceUntilBoundary, alignment_next_boundary
<1>8. PICK b \in Int : b = SpaceUntilBoundary(central_dir_start)
  BY <1>7
<1>9. q.at + b <= e /\ b >= 44
  BY <1>3, <1>5, <1>6, <1>8
<1> QED
  BY <1>1, <1>4, <1>5, <1>9

LEMMA ReadyAtEnd ==
  ASSUME NEW p, NEW q, Working(p, q), Active(q), q.at < q.received,
         q.received = PartDataEnd(p), NEW s, s = FrameAtPosition(q.at)
  PROVE  Ready(p, s)
<1>1. /\ Restorable /\ p \in Processors /\ q = proc[p] /\ Placement(q, p) /\ ProcessorOK(q, p)
      /\ q.at \in Nat /\ q.received \in Nat /\ q \in ProcessorStates
      /\ p \in Nat /\ p * part_size <= q.at /\ p * part_size \in Nat
  BY WorkingFacts
<1>2. q.state \in {"CONTINUING_FILE", "EXPECT_LOCAL_HEADER", "PROCESSING_FRAMES",
                   "READING_SYMLINK"}
  BY <1>1 DEF Active, ProcessorStates, States
<1>3. CASE q.state = "CONTINUING_FILE"
  <2>1. q.at = p * part_size /\ ContinuingFile(cd_files, p) # 0
    BY <1>1, <1>3 DEF Placement, ProcessorOK
  <2>2. PICK t \in Pieces : t.at = p * part_size /\ t.kind = "SOP"
    BY <1>1, <2>1, Continues
  <2>3. s = t /\ t.kind # "Content"
    BY <1>1, <2>1, <2>2, FrameIsPiece
  <2>4. q.received - q.at >= BytesNeeded(s, q.state)
    BY <2>1, <2>2, <2>3, PieceComplete
  <2> QED
    BY <1>1, <1>3, <2>4 DEF Ready
<1>4. CASE q.state = "EXPECT_LOCAL_HEADER" /\ ~NoEntryLeft(p)
  <2>1. /\ Cardinality(Seen(p, q.at)) < Cardinality(EntriesOf(cd_files, p))
        /\ \/ q.at = central_dir_start /\ s.kind = "CDFH"
           \/ s \in Pieces /\ s.at = q.at /\ s.kind \in {"LFH", "PadLFH"}
           \/ s.kind = "SOP"
           \/ s.kind = "Unknown"
    BY <1>4, ExpectingFacts
  <2>2. q.received - q.at >= BytesNeeded(s, q.state)
    <3>1. CASE q.at = central_dir_start /\ s.kind = "CDFH"
      BY <3>1, DirectoryComplete DEF BytesNeeded
    <3>2. CASE s \in Pieces /\ s.at = q.at /\ s.kind \in {"LFH", "PadLFH"}
      BY <3>2, PieceComplete
    <3>3. CASE s.kind = "SOP"
      <4>1. s \in layout /\ s.at = q.at
        BY <1>1, <3>3, FrameSeen DEF Restorable, ArchiveInv, AlignInv
      <4>2. s \in Pieces
        BY <1>1, <3>3, <4>1, PieceBelow
      <4> QED
        BY <3>3, <4>1, <4>2, PieceComplete
    <3>4. CASE s.kind = "Unknown"
      <4>1. PICK i \in EntriesOf(cd_files, p) : q.at <= files[i].local_header_offset
        BY <1>1, <2>1, EntriesLeft
      <4>2. i \in 1..Len(files)
        BY <1>1, SeenFinite
      <4>3. PICK h \in Pieces : h.at = files[i].local_header_offset /\ h.kind = "LFH"
        BY <1>1, <4>2, EntryHeader
      <4>4. p * part_size <= h.at /\ h.at < p * part_size + part_size
        BY <1>1, <4>2, <4>3, EntryInPart
      <4>5. h.at + h.len <= PartDataEnd(p)
        BY <1>1, <4>4, PieceInPart
      <4>6. h.at \in Nat /\ h.len \in Nat /\ h.len >= 30
        BY <1>1, <4>3, PieceTypes, ArchiveWritten DEF Sized
      <4>7. q.received - q.at >= 4
        BY <1>1, <4>1, <4>3, <4>5, <4>6
      <4> QED
        BY <3>4, <4>7 DEF BytesNeeded
    <3> QED
      BY <2>1, <3>1, <3>2, <3>3, <3>4
  <2> QED
    BY <1>1, <1>4, <2>2 DEF Ready
<1>5. CASE q.state = "PROCESSING_FRAMES"
  <2>1. \/ q.at = central_dir_start /\ s.kind = "CDFH"
        \/ s \in Pieces /\ s.at = q.at /\ s.kind # "Content"
    BY <1>5, ProcessingFacts
  <2>2. q.received - q.at >= BytesNeeded(s, q.state)
    <3>1. CASE q.at = central_dir_start /\ s.kind = "CDFH"
      BY <3>1, DirectoryComplete DEF BytesNeeded
    <3>2. CASE s \in Pieces /\ s.at = q.at /\ s.kind # "Content"
      BY <3>2, PieceComplete
    <3> QED
      BY <2>1, <3>1, <3>2
  <2> QED
    BY <1>1, <1>5, <2>2 DEF Ready
<1>6. CASE q.state = "READING_SYMLINK" \/ (q.state = "EXPECT_LOCAL_HEADER" /\ NoEntryLeft(p))
  BY <1>1, <1>6 DEF Ready
<1> QED
  BY <1>2, <1>3, <1>4, <1>5, <1>6

\* So part_processor_finalize finds an empty buffer, and no file half read.
LEMMA FinalizeEmpty ==
  ASSUME NEW p, NEW q, Working(p, q), ~Ready(p, FrameAtPosition(q.at)), FinalizePart(p)
  PROVE  /\ q.at = q.received
         /\ Becomes(p, [WithoutFile(q) EXCEPT !.state = "DONE", !.finalized = TRUE])
         /\ q.state # "READING_SYMLINK"
<1>1. /\ Restorable /\ p \in Processors /\ q = proc[p] /\ Placement(q, p) /\ ProcessorOK(q, p)
      /\ q.at \in Nat /\ q.received \in Nat /\ q.at <= q.received /\ q \in ProcessorStates
      /\ p \in Nat /\ p * part_size <= q.at /\ p * part_size \in Nat
      /\ HasFile(q) => q.file \in 1..Len(files)
  BY WorkingFacts
<1>2. q.state # "ERROR" /\ (q.state = "DONE" \/ q.received = PartDataEnd(p))
  BY <1>1 DEF FinalizePart, Open
<1>3. q.at = q.received
  <2>1. q.state = "DONE" => q.at = q.received
    BY <1>1 DEF Placement
  <2>2. ASSUME q.state # "DONE", q.at < q.received PROVE FALSE
    BY <1>2, <2>2, ReadyAtEnd DEF Active
  <2> QED
    BY <1>1, <2>1, <2>2
<1>4. ~(q.at < q.received)
  BY <1>1, <1>3
<1>5. Becomes(p, [WithoutFile(q) EXCEPT !.state = "DONE", !.finalized = TRUE])
  BY <1>1, <1>4 DEF FinalizePart
<1>6. ASSUME q.state = "READING_SYMLINK" PROVE FALSE
  <2>1. q.file \in 1..Len(files)
        /\ InTarget(q.at, q.file, q.symlink_bytes_read, q.symlink_source)
    BY <1>1, <1>6 DEF HasFile, Placement
  <2>2. PICK c \in Pieces : /\ c.kind = "Content" /\ q.at = c.at + q.symlink_bytes_read
                            /\ q.symlink_bytes_read < c.len
    BY <2>1 DEF InTarget
  <2>3. c.at \in Nat /\ c.len \in Nat /\ q.symlink_bytes_read \in Nat
    BY <1>1, PieceTypes DEF ProcessorStates
  <2>4. q.received = PartDataEnd(p)
    BY <1>2, <1>6
  <2>5. /\ PartDataEnd(p) <= p * part_size + part_size /\ part_size \in Nat
    BY <1>1, PartEnds
  <2>6. p * part_size <= c.at
    <3> SUFFICES ASSUME c.at < p * part_size PROVE FALSE
      BY <1>1, <2>3
    <3>1. q.at < c.at + c.len /\ c.at + c.len <= central_dir_start /\ central_dir_start \in Nat
      BY <1>1, <2>2, <2>3, PieceTypes, ArchiveWritten
    <3>2. p * part_size < central_dir_start /\ c.at <= p * part_size
          /\ p * part_size < c.at + c.len
      BY <1>1, <2>3, <3>1
    <3>3. PICK t \in Pieces : t.at = p * part_size
      BY <1>1, <3>2, PartBegins
    <3>4. t = c
      BY <1>1, <3>2, <3>3, OnePiece
    <3> QED
      BY <1>1, <2>3, <3>3, <3>4
  <2>7. c.at < p * part_size + part_size
    <3>1. c.at <= p * part_size + part_size
      <4>1. PICK e \in Nat : e = p * part_size + part_size
        BY <1>1, <2>5
      <4>2. q.at <= e
        BY <1>3, <2>4, <2>5, <4>1
      <4>3. c.at <= q.at
        BY <2>2, <2>3
      <4> QED
        BY <1>1, <2>3, <4>1, <4>2, <4>3
    <3>2. ASSUME c.at = p * part_size + part_size PROVE FALSE
      <4>1. p + 1 \in Nat /\ (p + 1) * part_size = p * part_size + part_size
        BY <1>1, <2>5, Z3
      <4>2. (p + 1) * part_size < central_dir_start
        BY <1>1, <3>2, <4>1, PieceTypes
      <4>3. PICK t \in Pieces : /\ t.at = (p + 1) * part_size
                                /\ t.kind \in {"LFH", "PadLFH", "SOP"}
        BY <1>1, <4>1, <4>2, BoundaryBegins
      <4>4. c.at <= t.at /\ t.at < c.at + c.len
        <5>1. t.at = c.at /\ c.len \in Nat \ {0}
          BY <1>1, <3>2, <4>1, <4>3, PieceTypes
        <5> QED
          BY <2>3, <5>1
      <4>5. t = c
        BY <1>1, <4>4, OnePiece
      <4> QED
        BY <2>2, <4>3, <4>5
    <3> QED
      BY <1>1, <2>3, <2>5, <3>1, <3>2
  <2>8. c.at + c.len <= PartDataEnd(p)
    BY <1>1, <2>6, <2>7, PieceInPart
  <2>9. q.received < c.at + c.len
    BY <1>3, <2>2, <2>3
  <2> QED
    BY <1>1, <2>3, <2>4, <2>8, <2>9
<1> QED
  BY <1>3, <1>5, <1>6

LEMMA FinalizeStands ==
  ASSUME NEW p, NEW q, Working(p, q), ~Ready(p, FrameAtPosition(q.at)), FinalizePart(p)
  PROVE  \E n : Becomes(p, n) /\ Stands(n, p)
<1> DEFINE n == [WithoutFile(q) EXCEPT !.state = "DONE", !.finalized = TRUE]
<1>1. q.at = q.received /\ Becomes(p, n)
  BY FinalizeEmpty
<1>2. q \in ProcessorStates
  BY WorkingFacts
<1>3. /\ n.state = "DONE" /\ n.at = q.at /\ n.received = q.received /\ n.error = q.error
  BY <1>2 DEF WithoutFile, ProcessorStates
<1> HIDE DEF n
<1>4. q.state # "ERROR"
  BY WorkingFacts DEF FinalizePart, Open
<1>5. Stands(n, p)
  BY <1>1, <1>3, <1>4, DoneStands
<1> QED
  BY <1>1, <1>5

\* One step of any processor.
LEMMA PartStands ==
  ASSUME NEW p, NEW q, Working(p, q), PartSteps(p)
  PROVE  \E n : Becomes(p, n) /\ Stands(n, p)
<1>1. q = proc[p]
  BY WorkingFacts
<1>2. PICK s : s = FrameAtPosition(q.at)
  OBVIOUS
<1>3. \/ Ready(p, s) /\ (ContinueFile(p, s) \/ OpenEntry(p, s))
      \/ Ready(p, s) /\ (SkipPadding(p, s) \/ WriteData(p, s) \/ StartOfPartInFile(p, s))
      \/ Ready(p, s) /\ (EndOfFile(p, s) \/ NextHeader(p, s))
      \/ ReachDirectory(p, s) \/ StopAtLastEntry(p)
      \/ ReadSymlink(p)
      \/ RejectFrame(p, s)
      \/ \E c \in ChunkSizes : ReceiveChunk(p, c)
      \/ ~Ready(p, s) /\ FinalizePart(p)
  BY <1>1, <1>2 DEF PartSteps
<1>4. CASE Ready(p, s) /\ (ContinueFile(p, s) \/ OpenEntry(p, s))
  BY <1>2, <1>4, ContinueFileStands, OpenEntryStands
<1>5. CASE Ready(p, s) /\ (SkipPadding(p, s) \/ WriteData(p, s) \/ StartOfPartInFile(p, s))
  BY <1>2, <1>5, SkipPaddingStands, WriteDataStands, StartOfPartStands
<1>6. CASE Ready(p, s) /\ (EndOfFile(p, s) \/ NextHeader(p, s))
  BY <1>2, <1>6, EndOfFileStands, NextHeaderStands
<1>7. CASE ReachDirectory(p, s) \/ StopAtLastEntry(p)
  BY <1>7, ReachDirectoryStands
<1>8. CASE RejectFrame(p, s)
  BY <1>2, <1>8, RejectFrameStands
<1>9. CASE ~Ready(p, s) /\ FinalizePart(p)
  BY <1>2, <1>9, FinalizeStands
<1> QED
  BY <1>3, <1>4, <1>5, <1>6, <1>7, <1>8, <1>9, ReadSymlinkStands, ReceiveStands

(***************************************************************************)
(* The output files: what the handlers do to them.                         *)
(***************************************************************************)

\* What a step may do to a file.
Grows(i, o, n) ==
  /\ o.finished => n.finished
  /\ files[i].kind # "symlink" => o.written \subseteq n.written
  /\ n.mode = "readonly" => o.mode = "readonly" \/ MadeReadOnly(i)

OutputsGrow ==
  /\ DOMAIN out' = DOMAIN out
  /\ \A i \in 1..Len(files) : OutputOK(i, out'[i]) /\ Grows(i, out[i], out'[i])

LEMMA SameOutputs ==
  ASSUME OutputsOK, UNCHANGED out
  PROVE  OutputsGrow
  BY DEF OutputsOK, OutputsGrow, Grows

LEMMA OneOutput ==
  ASSUME OutputsOK, NEW i \in 1..Len(files), NEW o, out' = [out EXCEPT ![i] = o],
         OutputOK(i, o), Grows(i, out[i], o)
  PROVE  OutputsGrow
<1>1. DOMAIN out' = DOMAIN out /\ \A j \in 1..Len(files) : out'[j] = IF j = i THEN o ELSE out[j]
  BY DEF OutputsOK
<1>2. ASSUME NEW j \in 1..Len(files) PROVE OutputOK(j, out'[j]) /\ Grows(j, out[j], out'[j])
  <2>1. CASE j = i
    BY <1>1, <2>1
  <2>2. CASE j # i
    <3>1. out'[j] = out[j] /\ OutputOK(j, out[j])
      BY <1>1, <2>2 DEF OutputsOK
    <3> QED
      BY <3>1 DEF Grows
  <2> QED
    BY <2>1, <2>2
<1> QED
  BY <1>1, <1>2 DEF OutputsGrow

\* open_output_file: a directory is made, with those of the path.
LEMMA OpenedGrows ==
  ASSUME Restorable, OutputsOK, NEW i \in 1..Len(files), out' = Opened(i)
  PROVE  /\ OutputsGrow
         /\ files[i].kind = "dir" => out'[i].finished
<1>1. DOMAIN out = 1..Len(files) /\ DOMAIN out' = DOMAIN out
  BY DEF OutputsOK, Opened
<1>2. ASSUME NEW j \in 1..Len(files)
      PROVE  OutputOK(j, out'[j]) /\ Grows(j, out[j], out'[j])
  <2>1. OutputOK(j, out[j]) /\ cd_files[j].kind = files[j].kind
    BY EntryParsed DEF OutputsOK
  <2>2. \/ j = i /\ cd_files[j].kind = "dir"
           /\ out'[j] = [out[j] EXCEPT !.mode = ArchivedMode(cd_files[j]), !.finished = TRUE]
        \/ out'[j] = Made(out[j])
        \/ out'[j] = out[j]
    BY <1>1 DEF Opened
  <2>3. CASE /\ cd_files[j].kind = "dir"
             /\ out'[j] = [out[j] EXCEPT !.mode = ArchivedMode(cd_files[j]), !.finished = TRUE]
    <3>1. /\ out'[j].mode = ArchivedMode(cd_files[j]) /\ out'[j].finished
          /\ out'[j].written = out[j].written
          /\ out'[j] \in [size : Nat, mode : Modes, finished : BOOLEAN,
                          written : SUBSET DataOf(files[j].id)]
      BY <2>1, <2>3 DEF OutputOK, ArchivedMode, Modes
    <3>2. ~Regular(j)
      BY <2>3 DEF Regular
    <3> QED
      BY <2>1, <2>3, <3>1, <3>2 DEF OutputOK, Grows, MadeReadOnly
  <2>4. CASE out'[j] = Made(out[j]) /\ out[j].mode = "absent"
    <3>1. out'[j] = [out[j] EXCEPT !.mode = "writable"]
      BY <2>4 DEF Made
    <3>2. /\ out'[j].mode = "writable" /\ out'[j].finished = out[j].finished
          /\ out'[j].written = out[j].written
          /\ out'[j] \in [size : Nat, mode : Modes, finished : BOOLEAN,
                          written : SUBSET DataOf(files[j].id)]
      BY <2>1, <3>1 DEF OutputOK, Modes
    <3>3. ~(out[j].finished /\ files[j].kind \in {"file", "empty"})
      BY <2>1, <2>4 DEF OutputOK, ArchivedMode
    <3> QED
      BY <2>1, <3>2, <3>3 DEF OutputOK, Grows
  <2>5. CASE out'[j] = out[j]
    BY <2>1, <2>5 DEF Grows
  <2> QED
    BY <2>2, <2>3, <2>4, <2>5 DEF Made
<1>3. ASSUME files[i].kind = "dir" PROVE out'[i].finished
  <2>1. OutputOK(i, out[i]) /\ cd_files[i].kind = "dir"
    BY <1>3, EntryParsed DEF OutputsOK
  <2>2. out'[i] = [out[i] EXCEPT !.mode = ArchivedMode(cd_files[i]), !.finished = TRUE]
    BY <1>1, <2>1 DEF Opened
  <2> QED
    BY <2>1, <2>2 DEF OutputOK
<1> QED
  BY <1>1, <1>2, <1>3 DEF OutputsGrow

\* The data of an entry.
DataRecord(s) == [id |-> s.id, uoff |-> s.uoff, ulen |-> s.ulen, at |-> s.uoff]

LEMMA DataOfEntry ==
  ASSUME Restorable, NEW i \in 1..Len(files)
  PROVE  /\ \A s \in Pieces : s.id = files[i].id /\ s.kind \in {"Frame", "Content"} =>
              DataRecord(s) \in DataOf(files[i].id)
         /\ \A w \in DataOf(files[i].id) :
              \E s \in Pieces : /\ s.id = files[i].id /\ s.kind \in {"Frame", "Content"}
                                /\ w = DataRecord(s)
<1>1. \A s \in layout : s.kind \in {"Frame", "Content"} => s \in Pieces
  BY PieceBelow
<1>2. \A s \in Pieces : s \in layout
  BY PieceTypes
<1> QED
  BY <1>1, <1>2, Zenon DEF DataOf, DataRecord

\* That of a symlink is its target.
LEMMA DataOfSymlink ==
  ASSUME Restorable, NEW i \in 1..Len(files), files[i].kind = "symlink",
         NEW c \in Pieces, c.kind = "Content", c.id = files[i].id
  PROVE  DataOf(files[i].id) = {DataRecord(c)}
<1>1. ASSUME NEW s \in Pieces, s.id = files[i].id, s.kind \in {"Frame", "Content"}
      PROVE  s = c
  <2>1. s.kind = "Content"
    BY <1>1, OwnKind
  <2>2. PICK h \in Pieces : h.kind = "LFH" /\ h.id = c.id /\ h.at + h.len = c.at
    BY ArchiveWritten DEF TargetsPlaced
  <2>3. PICK k \in Pieces : k.kind = "LFH" /\ k.id = s.id /\ k.at + k.len = s.at
    BY <2>1, ArchiveWritten DEF TargetsPlaced
  <2>4. h = k
    BY <1>1, <2>2, <2>3, OneHeader
  <2>5. s.at = c.at
    BY <2>2, <2>3, <2>4
  <2>6. s.at \in Nat /\ s.len \in Nat \ {0} /\ c.at \in Nat
    BY PieceTypes
  <2>7. s.at <= c.at /\ c.at < s.at + s.len
    BY <2>5, <2>6
  <2> QED
    BY <2>7, OnePiece
<1>2. DataRecord(c) \in DataOf(files[i].id)
  BY DataOfEntry
<1>3. \A w \in DataOf(files[i].id) : w = DataRecord(c)
  BY <1>1, DataOfEntry
<1> QED
  BY <1>2, <1>3

\* A frame is written at its offset, within the size of its file.
LEMMA WrittenGrows ==
  ASSUME Restorable, OutputsOK, NEW i \in 1..Len(files), NEW s \in Pieces,
         s.kind = "Frame", s.id = files[i].id, out' = Written(i, s, s.uoff)
  PROVE  OutputsGrow /\ DataRecord(s) \in out'[i].written
<1>1. OutputOK(i, out[i]) /\ i \in DOMAIN out
  BY DEF OutputsOK
<1>2. /\ s.uoff \in Nat /\ s.ulen \in Nat /\ files[i].uncompressed_size \in Nat
      /\ out[i].size \in Nat
  BY <1>1, PieceTypes, EntryTypes DEF OutputOK
<1>3. s.uoff + s.ulen <= files[i].uncompressed_size
  <2>1. s \in FramesOf(layout, files[i].id)
    BY PieceTypes DEF FramesOf
  <2>2. Located(files[i], layout)
    BY EntryByEntry DEF Restorable, ArchiveInv, LocateInv
  <2> QED
    BY <2>1, <2>2 DEF Located
<1>4. PICK e \in Nat : e = s.uoff + s.ulen
  BY <1>2
<1>5. PICK z \in Nat : /\ z = Max({out[i].size, e})
                       /\ z = IF out[i].size <= e THEN e ELSE out[i].size
  <2>1. out[i].size \in Int /\ e \in Int
    BY <1>2
  <2>2. Max({out[i].size, e}) = IF out[i].size <= e THEN e ELSE out[i].size
    BY <2>1, MinMaxOfTwo, Zenon
  <2> QED
    BY <1>2, <2>2
<1> DEFINE w == DataRecord(s)
           o == [out[i] EXCEPT !.size = z, !.written = @ \cup {w}]
<1>6. out' = [out EXCEPT ![i] = o]
  <2>1. out' = [out EXCEPT ![i].size = Max({@, e}), ![i].written = @ \cup {w}]
    BY <1>4, Zenon DEF Written, DataRecord
  <2>2. [out EXCEPT ![i].size = Max({@, e}), ![i].written = @ \cup {w}] =
          [out EXCEPT ![i].size = Max({out[i].size, e}), ![i].written = @ \cup {w}]
    OBVIOUS
  <2> HIDE DEF w
  <2> QED
    BY <1>1, <1>5, <2>1, <2>2 DEF OutputOK
<1>7. w \in DataOf(files[i].id)
  BY DataOfEntry
<1>8. files[i].kind = "file"
  BY OwnKind
<1> HIDE DEF w
<1>9. /\ o \in [size : Nat, mode : Modes, finished : BOOLEAN,
                written : SUBSET DataOf(files[i].id)]
      /\ o.finished = out[i].finished /\ o.mode = out[i].mode
      /\ o.written = out[i].written \cup {w} /\ o.size = z
  BY <1>1, <1>7 DEF OutputOK
<1> HIDE DEF o
<1>10. o.finished => o.size = files[i].uncompressed_size /\ o.mode = ArchivedMode(files[i])
  <2>1. out[i].finished => /\ out[i].size = files[i].uncompressed_size
                           /\ out[i].mode = ArchivedMode(files[i])
    BY <1>1, <1>8 DEF OutputOK
  <2> QED
    BY <1>2, <1>3, <1>4, <1>5, <1>9, <2>1
<1>11. OutputOK(i, o) /\ Grows(i, out[i], o)
  BY <1>8, <1>9, <1>10 DEF OutputOK, Grows
<1>12. OutputsGrow
  BY <1>6, <1>11, OneOutput
<1>13. out'[i] = o
  BY <1>1, <1>6
<1> QED
  BY <1>9, <1>12, <1>13 DEF w

\* A file is closed: it gets its size and mode; a symlink is made from the
\* target that was read.
LEMMA ClosedGrows ==
  ASSUME Restorable, OutputsOK, Permitted, NEW q, out' = Closed(q),
         \/ q.file = 0
         \/ /\ q.file \in 1..Len(files) /\ Begun(q.file)
            /\ files[q.file].kind = "symlink" =>
                 \E c \in Pieces : /\ c.kind = "Content" /\ c.id = files[q.file].id
                                   /\ q.symlink_source = c.id /\ q.symlink_bytes_read = c.len
  PROVE  /\ OutputsGrow
         /\ q.file # 0 => files[q.file].kind = "dir" \/ out'[q.file].finished
<1>1. CASE q.file = 0
  <2>1. UNCHANGED out
    BY <1>1 DEF Closed, Regular
  <2> QED
    BY <1>1, <2>1, SameOutputs
<1>2. CASE q.file # 0
  <2>1. PICK i : i = q.file
    OBVIOUS
  <2>2. i \in 1..Len(files) /\ OutputOK(i, out[i]) /\ i \in DOMAIN out
    BY <1>2, <2>1 DEF OutputsOK
  <2>3. /\ cd_files[i].kind = files[i].kind
        /\ cd_files[i].uncompressed_size = files[i].uncompressed_size
        /\ ArchivedMode(cd_files[i]) = ArchivedMode(files[i]) /\ ArchivedMode(files[i]) \in Modes
        /\ files[i].uncompressed_size \in Nat /\ files[i].kind \in EntryKinds
    BY <2>2, EntryParsed, EntryTypes DEF ArchivedMode, Modes
  <2>4. CASE files[i].kind \in {"file", "empty"}
    <3> DEFINE o == [out[i] EXCEPT !.size = files[i].uncompressed_size,
                                   !.mode = ArchivedMode(files[i]), !.finished = TRUE]
    <3>1. Regular(i)
      BY <1>2, <2>1, <2>3, <2>4 DEF Regular
    <3>2. out' = [out EXCEPT ![i].size = files[i].uncompressed_size,
                             ![i].mode = ArchivedMode(files[i]), ![i].finished = TRUE]
      BY <2>1, <2>3, <3>1 DEF Closed
    <3>3. out' = [out EXCEPT ![i] = o]
      BY <2>2, <3>2 DEF OutputOK
    <3>4. /\ o \in [size : Nat, mode : Modes, finished : BOOLEAN,
                    written : SUBSET DataOf(files[i].id)]
          /\ o.finished /\ o.written = out[i].written /\ o.size = files[i].uncompressed_size
          /\ o.mode = ArchivedMode(files[i])
      BY <2>2, <2>3 DEF OutputOK
    <3> HIDE DEF o
    <3>5. OutputOK(i, o) /\ Grows(i, out[i], o)
      BY <1>2, <2>1, <2>3, <2>4, <3>4 DEF OutputOK, Grows, MadeReadOnly
    <3>6. OutputsGrow
      BY <2>2, <3>3, <3>5, OneOutput
    <3>7. out'[i] = o
      BY <2>2, <3>3
    <3> QED
      BY <2>1, <3>4, <3>6, <3>7
  <2>5. CASE files[i].kind = "symlink"
    <3>1. PICK c \in Pieces : /\ c.kind = "Content" /\ c.id = files[i].id
                              /\ q.symlink_source = c.id /\ q.symlink_bytes_read = c.len
      BY <1>2, <2>1, <2>5
    <3> DEFINE w == DataRecord(c)
               made == IF InLockedDirectory(i) THEN out[i].written ELSE {w}
               o == [out[i] EXCEPT !.finished = TRUE, !.written = made]
    <3>2. ~Regular(i)
      BY <2>3, <2>5 DEF Regular
    <3>3. w = [id |-> q.symlink_source, uoff |-> 0, ulen |-> q.symlink_bytes_read, at |-> 0]
      <4>1. c.uoff = 0 /\ c.ulen = c.len
        BY <3>1, ArchiveWritten DEF TargetsPlaced
      <4> QED
        BY <3>1, <4>1 DEF DataRecord
    <3> HIDE DEF w
    <3>4. out' = [out EXCEPT ![i].finished = TRUE,
                             ![i].written = IF InLockedDirectory(i) THEN @ ELSE {w}]
      BY <1>2, <2>1, <2>3, <2>5, <3>2, <3>3 DEF Closed
    <3>5. out' = [out EXCEPT ![i] = o]
      BY <2>2, <3>4 DEF OutputOK
    <3>6. DataOf(files[i].id) = {w}
      BY <2>2, <2>5, <3>1, DataOfSymlink DEF w
    <3>7. made \in SUBSET DataOf(files[i].id)
      BY <2>2, <3>6 DEF OutputOK
    <3>8. DataOf(files[i].id) \subseteq made \/ InReadOnlyDirectory(i)
      BY <2>2, <3>6, LockedIsReadOnly
    <3> HIDE DEF made
    <3>9. /\ o \in [size : Nat, mode : Modes, finished : BOOLEAN,
                    written : SUBSET DataOf(files[i].id)]
          /\ o.finished /\ o.written = made /\ o.mode = out[i].mode
      BY <2>2, <3>7 DEF OutputOK
    <3> HIDE DEF o
    <3>10. OutputOK(i, o) /\ Grows(i, out[i], o)
      BY <2>5, <3>8, <3>9 DEF OutputOK, Grows
    <3>11. OutputsGrow
      BY <2>2, <3>5, <3>10, OneOutput
    <3>12. out'[i] = o
      BY <2>2, <3>5
    <3> QED
      BY <2>1, <3>9, <3>11, <3>12
  <2>6. CASE files[i].kind = "dir"
    <3>1. ~Regular(i) /\ cd_files[i].kind # "symlink"
      BY <2>3, <2>6 DEF Regular
    <3>2. UNCHANGED out
      BY <2>1, <3>1 DEF Closed
    <3> QED
      BY <2>1, <2>6, <3>2, SameOutputs
  <2> QED
    BY <2>3, <2>4, <2>5, <2>6 DEF EntryKinds
<1> QED
  BY <1>1, <1>2

\* The file of a processor that is not in the middle of a target may be
\* closed.
LEMMA LeavesFile ==
  ASSUME NEW p, NEW q, Working(p, q), OutputsOK, q.state \notin {"READING_SYMLINK", "ERROR"},
         out' = Closed(q)
  PROVE  OutputsGrow /\ (q.file # 0 => files[q.file].kind = "dir" \/ out'[q.file].finished)
<1>1. /\ Restorable /\ ProcessorOK(q, p) /\ (HasFile(q) => q.file \in 1..Len(files))
      /\ Permitted /\ (q.file # 0 => Begun(q.file))
  BY WorkingFacts DEF Working, Permitted
<1>2. q.file = 0 \/ q.state = "PROCESSING_FRAMES"
  BY <1>1 DEF ProcessorOK, HasFile
<1>3. q.state = "PROCESSING_FRAMES" => files[q.file].kind # "symlink" /\ q.file \in 1..Len(files)
  BY ProcessingFacts
<1> QED
  BY <1>1, <1>2, <1>3, ClosedGrows

\* One step of any processor.
LEMMA PartGrows ==
  ASSUME NEW p, NEW q, Working(p, q), OutputsOK, PartSteps(p)
  PROVE  OutputsGrow
<1>1. /\ q = proc[p] /\ Restorable /\ p \in Processors /\ q.at \in Nat
      /\ ProcessorOK(q, p) /\ Placement(q, p)
  BY WorkingFacts
<1>2. PICK s : s = FrameAtPosition(q.at)
  OBVIOUS
<1>3. \/ ContinueFile(p, s)
      \/ Ready(p, s) /\ OpenEntry(p, s)
      \/ SkipPadding(p, s) \/ StopAtLastEntry(p)
      \/ WriteData(p, s) \/ StartOfPartInFile(p, s)
      \/ EndOfFile(p, s) \/ NextHeader(p, s) \/ ReachDirectory(p, s)
      \/ ReadSymlink(p)
      \/ RejectFrame(p, s)
      \/ \E c \in ChunkSizes : ReceiveChunk(p, c)
      \/ ~Ready(p, s) /\ FinalizePart(p)
  BY <1>1, <1>2 DEF PartSteps
<1>4. CASE ContinueFile(p, s)
  <2>1. q.state = "CONTINUING_FILE"
    BY <1>1, <1>4 DEF ContinueFile, Handles
  <2>2. ContinuingFile(cd_files, p) # 0
    BY <1>1, <2>1 DEF ProcessorOK
  <2>3. PICK i : i = ContinuingFile(cd_files, p)
    OBVIOUS
  <2>4. i \in 1..Len(files)
    BY <1>1, <2>2, <2>3, Continues
  <2>5. out' = Opened(i) \/ UNCHANGED out
    BY <1>4, <2>3, Zenon DEF ContinueFile, Opens, Fails
  <2> QED
    BY <1>1, <2>4, <2>5, OpenedGrows, SameOutputs
<1>5. CASE Ready(p, s) /\ OpenEntry(p, s)
  <2>1. PICK i : i = EntryAt(cd_files, p, q.next_entry_idx)
    OBVIOUS
  <2>2. i \in 1..Len(files)
    BY <1>2, <1>5, <2>1, HeaderOfNextEntry
  <2>3. out' = Opened(i) \/ UNCHANGED out
    BY <1>1, <1>5, <2>1, Zenon DEF OpenEntry, Opens, Fails
  <2> QED
    BY <1>1, <2>2, <2>3, OpenedGrows, SameOutputs
<1>6. CASE WriteData(p, s)
  <2>1. q.state = "PROCESSING_FRAMES" /\ s.kind = "Frame"
    BY <1>1, <1>6 DEF WriteData, Handles
  <2>2. /\ q.file \in 1..Len(files) /\ s \in Pieces /\ s.id = files[q.file].id
        /\ s.uoff = q.uncompressed_offset
    BY <1>2, <2>1, ProcessingFacts
  <2>3. out' = Written(q.file, s, q.uncompressed_offset) \/ UNCHANGED out
    BY <1>1, <1>6, Zenon DEF WriteData, Fails
  <2>4. out' = Written(q.file, s, s.uoff) \/ UNCHANGED out
    BY <2>2, <2>3
  <2> QED
    BY <1>1, <2>1, <2>2, <2>4, WrittenGrows, SameOutputs
<1>7. CASE EndOfFile(p, s) \/ NextHeader(p, s) \/ ReachDirectory(p, s)
  <2>1. q.state \in {"PROCESSING_FRAMES", "EXPECT_LOCAL_HEADER"} /\ out' = Closed(q)
    BY <1>1, <1>7, Zenon DEF EndOfFile, NextHeader, ReachDirectory, Handles
  <2> QED
    BY <2>1, LeavesFile
<1>8. CASE ReadSymlink(p)
  <2>1. PICK read \in ProcessorStates, c \in Pieces : TargetStep(p, q, read, c)
    BY <1>8, TargetRead, Zenon
  <2>2. CASE UNCHANGED out
    BY <2>2, SameOutputs
  <2>3. CASE read.symlink_bytes_read = c.len /\ out' = Closed(read)
    <3>1. /\ read.file \in 1..Len(files) /\ c.kind = "Content" /\ read.file = q.file
          /\ c.id = files[read.file].id /\ read.symlink_source = c.id
      BY <2>1 DEF TargetStep
    <3>2. Permitted /\ Begun(read.file)
      BY <1>1, <3>1 DEF Working, Permitted
    <3> QED
      BY <1>1, <2>3, <3>1, <3>2, ClosedGrows
  <2> QED
    BY <2>1, <2>2, <2>3 DEF TargetStep
<1>9. CASE ~Ready(p, s) /\ FinalizePart(p)
  <2>1. q.state # "READING_SYMLINK"
    BY <1>2, <1>9, FinalizeEmpty
  <2>2. q.state # "ERROR" /\ out' = Closed(q)
    BY <1>1, <1>9 DEF FinalizePart, Open
  <2> QED
    BY <2>1, <2>2, LeavesFile
<1>10. CASE SkipPadding(p, s) \/ StopAtLastEntry(p) \/ StartOfPartInFile(p, s)
            \/ RejectFrame(p, s) \/ \E c \in ChunkSizes : ReceiveChunk(p, c)
  <2>1. UNCHANGED out
    BY <1>10, Zenon DEF SkipPadding, StopAtLastEntry, StartOfPartInFile, RejectFrame,
                        ReceiveChunk, Fails
  <2> QED
    BY <2>1, SameOutputs
<1> QED
  BY <1>3, <1>4, <1>5, <1>6, <1>7, <1>8, <1>9, <1>10

\* The entries a processor has behind it only become more, and a file it
\* takes up is among them or continues into its part.
Moves(p, q, n) ==
  \/ n.next_entry_idx = q.next_entry_idx /\ n.file \in {0, q.file, ContinuingFile(cd_files, p)}
  \/ /\ n.next_entry_idx = q.next_entry_idx + 1
     /\ n.file = EntryAt(cd_files, p, q.next_entry_idx)

LEMMA FailureMoves ==
  ASSUME NEW p, NEW q, q = proc[p], q \in ProcessorStates, NEW code, Fails(p, code)
  PROVE  \E n : Becomes(p, n) /\ Moves(p, q, n)
<1> DEFINE n == [q EXCEPT !.state = "ERROR", !.error = code]
<1>1. Becomes(p, n)
  BY DEF Fails
<1>2. n.next_entry_idx = q.next_entry_idx /\ n.file = q.file
  BY DEF ProcessorStates
<1> HIDE DEF n
<1> QED
  BY <1>1, <1>2 DEF Moves

LEMMA OpensMoves ==
  ASSUME NEW p, NEW q, q = proc[p], q \in ProcessorStates, NEW s, NEW i, NEW offset, NEW state,
         NEW k, Opens(p, s, i, offset, state, k),
         \/ k = q.next_entry_idx /\ i = ContinuingFile(cd_files, p)
         \/ k = q.next_entry_idx + 1 /\ i = EntryAt(cd_files, p, q.next_entry_idx)
  PROVE  \E n : Becomes(p, n) /\ Moves(p, q, n)
<1>1. CASE CanOpen(i)
  <2> DEFINE n == [Past(p, s) EXCEPT !.file = i, !.uncompressed_offset = offset,
                                     !.state = state, !.next_entry_idx = k]
  <2>1. Becomes(p, n)
    BY <1>1, Zenon DEF Opens
  <2>2. n.next_entry_idx = k /\ n.file = i
    BY DEF Past, ProcessorStates
  <2> HIDE DEF n
  <2> QED
    BY <2>1, <2>2 DEF Moves
<1>2. CASE ~CanOpen(i)
  BY <1>2, FailureMoves, Zenon DEF Opens
<1> QED
  BY <1>1, <1>2

LEMMA PartMoves ==
  ASSUME NEW p, NEW q, Working(p, q), PartSteps(p)
  PROVE  \E n : Becomes(p, n) /\ Moves(p, q, n)
<1>1. q = proc[p] /\ q \in ProcessorStates
  BY WorkingFacts
<1>2. PICK s : s = FrameAtPosition(q.at)
  OBVIOUS
<1>3. \/ ContinueFile(p, s) \/ OpenEntry(p, s) \/ StopAtLastEntry(p)
      \/ SkipPadding(p, s) \/ ReachDirectory(p, s) \/ WriteData(p, s)
      \/ StartOfPartInFile(p, s) \/ EndOfFile(p, s) \/ NextHeader(p, s)
      \/ ReadSymlink(p) \/ RejectFrame(p, s)
      \/ (\E c \in ChunkSizes : ReceiveChunk(p, c)) \/ FinalizePart(p)
  BY <1>1, <1>2 DEF PartSteps
<1>4. CASE ContinueFile(p, s)
  <2>1. PICK i, offset, k : /\ i = ContinuingFile(cd_files, p) /\ k = q.next_entry_idx
                            /\ Opens(p, s, i, offset, "PROCESSING_FRAMES", k)
    BY <1>1, <1>4, Zenon DEF ContinueFile
  <2> QED
    BY <1>1, <2>1, OpensMoves
<1>5. CASE OpenEntry(p, s)
  <2>1. PICK i, state, k : /\ i = EntryAt(cd_files, p, q.next_entry_idx)
                           /\ k = q.next_entry_idx + 1
                           /\ Opens(p, s, i, 0, state, k)
    BY <1>1, <1>5, Zenon DEF OpenEntry
  <2> QED
    BY <1>1, <2>1, OpensMoves
<1>6. CASE StopAtLastEntry(p)
  <2> DEFINE n == [q EXCEPT !.state = "DONE", !.at = q.received]
  <2>1. Becomes(p, n)
    BY <1>1, <1>6 DEF StopAtLastEntry
  <2>2. n.next_entry_idx = q.next_entry_idx /\ n.file = q.file
    BY <1>1 DEF ProcessorStates
  <2> HIDE DEF n
  <2> QED
    BY <2>1, <2>2 DEF Moves
<1>7. ASSUME NEW u, Becomes(p, [Past(p, s) EXCEPT !.uncompressed_offset = u])
      PROVE  \E n : Becomes(p, n) /\ Moves(p, q, n)
  <2> DEFINE n == [Past(p, s) EXCEPT !.uncompressed_offset = u]
  <2>1. n.next_entry_idx = q.next_entry_idx /\ n.file = q.file
    BY <1>1 DEF Past, ProcessorStates
  <2> HIDE DEF n
  <2> QED
    BY <1>7, <2>1 DEF Moves, n
<1>8. CASE SkipPadding(p, s)
  <2>1. Becomes(p, Past(p, s))
    BY <1>8 DEF SkipPadding
  <2>2. Past(p, s).next_entry_idx = q.next_entry_idx /\ Past(p, s).file = q.file
    BY <1>1 DEF Past, ProcessorStates
  <2> QED
    BY <2>1, <2>2 DEF Moves
<1>9. CASE WriteData(p, s) \/ StartOfPartInFile(p, s)
  <2>1. \/ \E u : Becomes(p, [Past(p, s) EXCEPT !.uncompressed_offset = u])
        \/ \E code : Fails(p, code)
    BY <1>9, Zenon DEF WriteData, StartOfPartInFile
  <2> QED
    BY <1>1, <1>7, <2>1, FailureMoves
<1>10. CASE ReachDirectory(p, s) \/ EndOfFile(p, s) \/ NextHeader(p, s)
  <2>1. PICK at, state : Becomes(p, [WithoutFile(q) EXCEPT !.at = at, !.state = state])
    <3>1. ASSUME ReachDirectory(p, s)
          PROVE  \E at, state : Becomes(p, [WithoutFile(q) EXCEPT !.at = at, !.state = state])
      <4>1. Becomes(p, [WithoutFile(q) EXCEPT !.state = "DONE", !.at = q.received])
        BY <1>1, <3>1 DEF ReachDirectory
      <4>2. [WithoutFile(q) EXCEPT !.state = "DONE", !.at = q.received] =
              [WithoutFile(q) EXCEPT !.at = q.received, !.state = "DONE"]
        BY <1>1 DEF WithoutFile, ProcessorStates
      <4> QED
        BY <4>1, <4>2
    <3>2. ASSUME EndOfFile(p, s)
          PROVE  \E at, state : Becomes(p, [WithoutFile(q) EXCEPT !.at = at, !.state = state])
      BY <1>1, <3>2, Zenon DEF EndOfFile
    <3>3. ASSUME NextHeader(p, s)
          PROVE  \E at, state : Becomes(p, [WithoutFile(q) EXCEPT !.at = at, !.state = state])
      <4>1. Becomes(p, [WithoutFile(q) EXCEPT !.state = "EXPECT_LOCAL_HEADER"])
        BY <1>1, <3>3 DEF NextHeader
      <4>2. [WithoutFile(q) EXCEPT !.state = "EXPECT_LOCAL_HEADER"] =
              [WithoutFile(q) EXCEPT !.at = q.at, !.state = "EXPECT_LOCAL_HEADER"]
        BY <1>1 DEF WithoutFile, ProcessorStates
      <4> QED
        BY <4>1, <4>2
    <3> QED
      BY <1>10, <3>1, <3>2, <3>3
  <2> DEFINE n == [WithoutFile(q) EXCEPT !.at = at, !.state = state]
  <2>2. n.next_entry_idx = q.next_entry_idx /\ n.file = 0
    BY <1>1 DEF WithoutFile, ProcessorStates
  <2> HIDE DEF n
  <2> QED
    BY <2>1, <2>2 DEF Moves, n
<1>11. CASE ReadSymlink(p)
  <2>1. PICK read \in ProcessorStates, c \in Pieces : TargetStep(p, q, read, c)
    BY <1>11, TargetRead, Zenon
  <2>2. read.next_entry_idx = q.next_entry_idx /\ read.file = q.file
    BY <2>1 DEF TargetStep
  <2> DEFINE n == [WithoutFile(read) EXCEPT !.state = "EXPECT_LOCAL_HEADER"]
  <2>3. n.next_entry_idx = q.next_entry_idx /\ n.file = 0
    BY <2>2 DEF WithoutFile, ProcessorStates
  <2>4. Becomes(p, n) \/ Becomes(p, read)
    BY <2>1, Zenon DEF TargetStep
  <2> HIDE DEF n
  <2> QED
    BY <2>2, <2>3, <2>4 DEF Moves
<1>12. CASE RejectFrame(p, s)
  BY <1>1, <1>12, FailureMoves DEF RejectFrame
<1>13. CASE \E c \in ChunkSizes : ReceiveChunk(p, c)
  <2>1. PICK received : Becomes(p, [q EXCEPT !.received = received])
    BY <1>1, <1>13 DEF ReceiveChunk
  <2> DEFINE n == [q EXCEPT !.received = received]
  <2>2. n.next_entry_idx = q.next_entry_idx /\ n.file = q.file
    BY <1>1 DEF ProcessorStates
  <2> HIDE DEF n
  <2> QED
    BY <2>1, <2>2 DEF Moves, n
<1>14. CASE FinalizePart(p)
  <2> DEFINE closed == WithoutFile(q)
             a == [closed EXCEPT !.state = "ERROR", !.error = "UNEXPECTED_EOF"]
             b == [closed EXCEPT !.state = "DONE", !.finalized = TRUE]
  <2>1. Becomes(p, a) \/ Becomes(p, b)
    BY <1>1, <1>14 DEF FinalizePart
  <2>2. /\ a.next_entry_idx = q.next_entry_idx /\ a.file = 0
        /\ b.next_entry_idx = q.next_entry_idx /\ b.file = 0
    BY <1>1 DEF WithoutFile, ProcessorStates
  <2> HIDE DEF a, b
  <2> QED
    BY <2>1, <2>2 DEF Moves
<1> QED
  BY <1>3, <1>4, <1>5, <1>6, <1>8, <1>9, <1>10, <1>11, <1>12, <1>13, <1>14

\* What is known of the modes stays known.
LEMMA StaysPermitted ==
  ASSUME NEW p, NEW q, Working(p, q), PartSteps(p), OutputsGrow, UNCHANGED <<vars, cd_files, place>>
  PROVE  Permitted'
<1>1. q = proc[p] /\ p \in Processors /\ Permitted /\ OutputsOK /\ Restorable
  BY DEF Working
<1>2. PICK n : Becomes(p, n) /\ Moves(p, q, n)
  BY PartMoves
<1>3. /\ cd_files' = cd_files /\ place' = place /\ DOMAIN proc' = DOMAIN proc
      /\ \A r \in DOMAIN proc : proc'[r] = IF r = p THEN n ELSE proc[r]
  BY <1>2 DEF Becomes
<1>4. \A r \in Processors : proc[r].next_entry_idx \in Nat
  BY <1>1 DEF Restorable, RestoreInv, ProcessorOK, ProcessorStates
<1>5. \A r \in Processors : /\ proc'[r].next_entry_idx \in Nat
                            /\ proc[r].next_entry_idx <= proc'[r].next_entry_idx
  BY <1>1, <1>2, <1>3, <1>4 DEF Moves, Processors
<1>6. ASSUME NEW i, Begun(i) PROVE Begun(i)'
  <2>1. PICK r \in Processors :
          \/ ContinuingFile(cd_files, r) = i
          \/ \E k \in Nat : k < proc[r].next_entry_idx /\ EntryAt(cd_files, r, k) = i
    BY <1>6 DEF Begun
  <2>2. \A k \in Nat : k < proc[r].next_entry_idx => k < proc'[r].next_entry_idx
    BY <1>4, <1>5
  <2>3. r \in DOMAIN proc'
    BY <1>3 DEF Processors
  <2> QED
    BY <1>3, <2>1, <2>2, <2>3 DEF Begun, Processors
<1>7. ASSUME NEW i \in DOMAIN out', out'[i].mode = "readonly"
      PROVE  place'[i].found = "readonly" \/ MadeReadOnly(i)'
  <2>1. i \in 1..Len(files) /\ i \in DOMAIN out
    BY <1>1 DEF OutputsGrow, OutputsOK
  <2>2. out[i].mode = "readonly" \/ MadeReadOnly(i)
    BY <1>7, <2>1 DEF OutputsGrow, Grows
  <2>3. place[i].found = "readonly" \/ MadeReadOnly(i)
    BY <1>1, <2>1, <2>2 DEF Permitted
  <2> QED
    BY <1>3, <1>6, <2>3 DEF MadeReadOnly, Regular
<1>8. ASSUME NEW r \in DOMAIN proc', NEW f, f = proc'[r].file, f # 0 PROVE Begun(f)'
  <2>1. CASE r # p
    <3>1. r \in Processors /\ f = proc[r].file
      BY <1>3, <1>8, <2>1 DEF Processors
    <3>2. Begun(f)
      BY <1>1, <1>8, <3>1 DEF Permitted
    <3> QED
      BY <1>6, <3>2
  <2>2. CASE r = p
    <3>1. f = n.file /\ proc'[p] = n /\ p \in DOMAIN proc'
      BY <1>1, <1>3, <1>8, <2>2 DEF Processors
    <3>2. CASE n.file = q.file
      <4>1. Begun(f)
        BY <1>1, <1>8, <3>1, <3>2 DEF Permitted
      <4> QED
        BY <1>6, <4>1
    <3>3. CASE n.file = ContinuingFile(cd_files, p)
      BY <1>3, <3>1, <3>3 DEF Begun, Processors
    <3>4. CASE /\ n.next_entry_idx = q.next_entry_idx + 1
               /\ n.file = EntryAt(cd_files, p, q.next_entry_idx)
      <4>1. q.next_entry_idx \in Nat /\ q.next_entry_idx < proc'[p].next_entry_idx
        BY <1>1, <1>4, <3>1, <3>4
      <4> QED
        BY <1>3, <3>1, <3>4, <4>1 DEF Begun, Processors
    <3> QED
      BY <1>2, <1>8, <3>1, <3>2, <3>3, <3>4 DEF Moves
  <2> QED
    BY <2>1, <2>2
<1> QED
  BY <1>1, <1>3, <1>7, <1>8 DEF Permitted, Processors, Places

(***************************************************************************)
(* The second inductive invariant: every processor stands where the bytes  *)
(* ahead are what it takes them for, and the files hold what they should.  *)
(***************************************************************************)
DeliveryInv ==
  proc # <<>> /\ Good =>
    OutputsOK /\ Permitted /\ \A p \in Processors : Stands(proc[p], p)

\* The state BeginRestore leaves.
Fresh ==
  /\ Restorable
  /\ \A p \in Processors : proc[p] = NewProcessor(cd_files, p)
  /\ place \in Places(cd_files)
  /\ out = [i \in DOMAIN files |-> OutputFile(files[i], place[i].found)]

LEMMA FreshStands == Fresh => DeliveryInv
<1> SUFFICES ASSUME Fresh
             PROVE  OutputsOK /\ Permitted /\ \A p \in Processors : Stands(proc[p], p)
  BY DEF DeliveryInv
<1>1. Restorable
  BY DEF Fresh
<1>2. OutputsOK
  <2>1. DOMAIN files = 1..Len(files) /\ DOMAIN out = DOMAIN files
    BY <1>1, EntriesParsed DEF Fresh
  <2>2. ASSUME NEW i \in 1..Len(files) PROVE OutputOK(i, out[i])
    <3>1. PICK found : found = place[i].found
      OBVIOUS
    <3>2. out[i] = OutputFile(files[i], found)
      BY <2>1, <3>1 DEF Fresh
    <3>3. StaleSize \in Nat /\ found \in Modes
      BY <1>1, <3>1, EntriesParsed, ProcessorAssumption DEF Fresh, Places
    <3>4. /\ OutputFile(files[i], found) \in
               [size : Nat, mode : Modes, finished : BOOLEAN,
                written : SUBSET DataOf(files[i].id)]
          /\ ~OutputFile(files[i], found).finished
      BY <3>3 DEF OutputFile
    <3> QED
      BY <3>2, <3>4 DEF OutputOK
  <2> QED
    BY <2>1, <2>2 DEF OutputsOK
<1>3. ASSUME NEW p \in Processors PROVE Stands(proc[p], p)
  <2>1. proc[p] = NewProcessor(cd_files, p)
    BY DEF Fresh
  <2>2. PICK q : q = NewProcessor(cd_files, p)
    OBVIOUS
  <2>3. /\ q.state = IF ContinuingFile(cd_files, p) = 0 THEN "EXPECT_LOCAL_HEADER"
                     ELSE "CONTINUING_FILE"
        /\ q.at = p * part_size /\ q.next_entry_idx = 0 /\ q.error = "none"
        /\ q.finalized = FALSE
    BY <2>2 DEF NewProcessor
  <2>4. Cardinality(Seen(p, q.at)) = 0
    BY <1>1, <2>3, SeenNone
  <2>5. Placement(q, p)
    BY <2>3, <2>4 DEF Placement, ExpectsHeader
  <2>6. Explained(q, p)
    BY <2>3 DEF Explained
  <2> QED
    BY <2>1, <2>2, <2>5, <2>6 DEF Stands
<1>4. Permitted
  <2>1. ASSUME NEW i \in DOMAIN out PROVE out[i].mode = place[i].found
    <3>1. PICK found : found = place[i].found
      OBVIOUS
    <3>2. out[i] = OutputFile(files[i], found)
      BY <3>1 DEF Fresh
    <3>3. OutputFile(files[i], found).mode = found
      BY DEF OutputFile
    <3> QED
      BY <3>1, <3>2, <3>3
  <2>2. ASSUME NEW p \in Processors PROVE proc[p].file = 0
    <3>1. NewProcessor(cd_files, p).file = 0
      BY DEF NewProcessor
    <3> QED
      BY <3>1 DEF Fresh
  <2> QED
    BY <2>1, <2>2 DEF Fresh, Permitted
<1> QED
  BY <1>2, <1>3, <1>4

LEMMA BeginRestoreDelivers ==
  ASSUME BeginRestore, ArchiveInv', RestoreInv', Good'
  PROVE  Fresh'
<1> DEFINE parsed == [i \in DOMAIN files |-> ParsedEntry(files[i])]
<1>1. /\ cd_files' = parsed /\ files' = files /\ NumParts(pos) > 1
      /\ proc' = [p \in 0..(NumParts(pos) - 1) |-> NewProcessor(parsed, p)]
      /\ place' \in Places(cd_files')
      /\ out' = [i \in DOMAIN files |-> OutputFile(files[i], place'[i].found)]
  BY DEF BeginRestore, vars, finalizeVars
<1>2. \A p \in DOMAIN proc' : proc'[p] = NewProcessor(cd_files', p)
  BY <1>1
<1>3. proc' # <<>>
  <2>1. pos \in Nat
    <3>1. pos' \in Nat /\ pos' = pos
      BY DEF BeginRestore, vars, ArchiveInv, AlignInv, TypeOK
    <3> QED
      BY <3>1
  <2>2. NumParts(pos) \in Nat
    <3>1. pos + part_size - 1 \in Nat
      BY <2>1, CdFetchAssumption
    <3>2. (pos + part_size - 1) \div part_size \in Nat
      BY <3>1, PartBrackets
    <3>3. PICK k \in Nat : k = (pos + part_size - 1) \div part_size
      BY <3>2
    <3>4. 1 \in Int /\ k \in Int
      OBVIOUS
    <3>5. Max({1, k}) = IF 1 <= k THEN k ELSE 1
      BY <3>4, MinMaxOfTwo, Zenon
    <3> QED
      BY <3>3, <3>5 DEF NumParts
  <2>3. 0 \in 0..(NumParts(pos) - 1)
    BY <1>1, <2>2
  <2>4. 0 \in DOMAIN proc'
    BY <1>1, <2>3
  <2>5. DOMAIN <<>> = {}
    OBVIOUS
  <2> QED
    BY <2>4, <2>5
<1> QED
  BY <1>1, <1>2, <1>3 DEF Fresh, Restorable, Processors, NewProcessor

LEMMA DeliveryStep ==
  ASSUME ArchiveInv, RestoreInv, DeliveryInv, RestoreSteps
  PROVE  DeliveryInv'
<1>1. PICK p \in Processors : PartSteps(p)
  BY DEF RestoreSteps
<1>2. /\ phase' = phase /\ pos' = pos /\ files' = files /\ cd_files' = cd_files
      /\ layout' = layout /\ attempts' = attempts /\ central_dir_start' = central_dir_start
      /\ place' = place
  BY DEF RestoreSteps, vars, finalizeVars
<1>3. Good' <=> Good
  BY <1>2 DEF Good, SomeFileAborted, Recorded, NoneAtFieldLimit, AtFieldLimit
<1> SUFFICES ASSUME Good
             PROVE  OutputsOK' /\ Permitted' /\ \A r \in Processors' : Stands(proc[r], r)'
  BY <1>3 DEF DeliveryInv
<1>4. proc # <<>>
  BY DEF Processors
<1>5. Restorable /\ OutputsOK /\ Permitted /\ \A r \in Processors : Stands(proc[r], r)
  BY <1>4 DEF Restorable, DeliveryInv
<1>6. Working(p, proc[p])
  BY <1>5 DEF Working
<1>7. PICK n : Becomes(p, n) /\ Stands(n, p)
  BY <1>1, <1>6, PartStands
<1>8. OutputsGrow
  BY <1>1, <1>5, <1>6, PartGrows
<1>9. OutputsOK'
  BY <1>2, <1>5, <1>8 DEF OutputsOK, OutputsGrow, OutputOK, DataOf, InReadOnlyDirectory,
                          ReadOnlyEver
<1>10. \A r, x : Placement(x, r) => Placement(x, r)'
  BY <1>2 DEF Placement, ExpectsHeader, Between, InDescriptor, InFrames, InTarget, Active,
              Pieces, Seen, Body
<1>11. \A r, x : Explained(x, r) => Explained(x, r)'
  <2>1. DOMAIN proc' = DOMAIN proc
    BY <1>7 DEF Becomes
  <2> QED
    BY <1>2, <2>1 DEF Explained, ContinuationMissed, FrameAtPosition, InDescriptor, Pieces, Body,
                      Wanted, OpenRefused, InReadOnlyDirectory, ReadOnlyEver, Regular, Processors
<1>12. \A r \in Processors' : r \in Processors /\ Stands(proc'[r], r)
  BY <1>5, <1>7 DEF Becomes, Processors
<1>13. Permitted'
  BY <1>1, <1>6, <1>8, StaysPermitted DEF RestoreSteps
<1> QED
  BY <1>9, <1>10, <1>11, <1>12, <1>13 DEF Stands

LEMMA DeliveryInvStep ==
  ASSUME ArchiveInv, RestoreInv, DeliveryInv, ArchiveInv', RestoreInv',
         [RestoreNext]_restoreVars
  PROVE  DeliveryInv' \/ Fresh'
<1>1. CASE WriterSteps
  <2>1. phase # "done"
    BY <1>1 DEF WriterSteps, BeginFile, AddHeaderOnly, AddSymlink, NextEntry, WriteFrame,
                EndFile, AbortFile, BeginFinalize, WriteCentralHeader, WriteEndRecords
  <2>2. proc' = <<>>
    BY <1>1, <2>1 DEF RestoreInv, DirectoryParsed, WriterSteps
  <2> QED
    BY <2>2 DEF DeliveryInv
<1>2. CASE BeginRestore
  BY <1>2, BeginRestoreDelivers DEF DeliveryInv
<1>3. CASE RestoreSteps
  BY <1>3, DeliveryStep
<1>4. CASE UNCHANGED restoreVars
  <2>1. /\ phase' = phase /\ pos' = pos /\ files' = files /\ cd_files' = cd_files
        /\ layout' = layout /\ attempts' = attempts /\ central_dir_start' = central_dir_start
        /\ proc' = proc /\ out' = out /\ place' = place
    BY <1>4 DEF restoreVars, vars, finalizeVars
  <2>2. Good' <=> Good
    BY <2>1 DEF Good, SomeFileAborted, Recorded, NoneAtFieldLimit, AtFieldLimit
  <2>3. \A r, x : Placement(x, r) => Placement(x, r)'
    BY <2>1 DEF Placement, ExpectsHeader, Between, InDescriptor, InFrames, InTarget, Active,
                Pieces, Seen, Body
  <2>4. \A r, x : Explained(x, r) => Explained(x, r)'
    BY <2>1 DEF Explained, ContinuationMissed, FrameAtPosition, InDescriptor, Pieces, Body,
                Wanted, OpenRefused, InReadOnlyDirectory, ReadOnlyEver, Regular, Processors
  <2>5. OutputsOK => OutputsOK'
    BY <2>1 DEF OutputsOK, OutputOK, DataOf, InReadOnlyDirectory, ReadOnlyEver
  <2>6. Permitted => Permitted'
    BY <2>1 DEF Permitted, MadeReadOnly, Begun, Regular, Processors
  <2> QED
    BY <2>1, <2>2, <2>3, <2>4, <2>5, <2>6 DEF DeliveryInv, Stands, Processors
<1> QED
  BY <1>1, <1>2, <1>3, <1>4 DEF RestoreNext

LEMMA ArchiveInvariant == RestoreSpec => []ArchiveInv
  BY RestoreContainsWriter, AlignInvariant, OrderInvariant, LocateInvariant, TileInvariant, PTL
     DEF ArchiveInv

LEMMA DeliveryInvariant == RestoreSpec => [](ArchiveInv /\ RestoreInv /\ DeliveryInv)
<1>1. RestoreInit => DeliveryInv
  BY DEF RestoreInit, DeliveryInv
<1>2. ArchiveInv /\ RestoreInv /\ DeliveryInv /\ ArchiveInv' /\ RestoreInv'
        /\ [RestoreNext]_restoreVars => DeliveryInv' \/ Fresh'
  BY DeliveryInvStep
<1> QED
  BY <1>1, <1>2, FreshStands, ArchiveInvariant, RestoreInvariant, PTL DEF RestoreSpec

\* Without processors there is no output.
LEMMA NothingStarted ==
  ASSUME ArchiveInv, RestoreInv, proc = <<>>
  PROVE  out = <<>> /\ DOMAIN out = {} /\ Processors = {}
<1>1. DOMAIN <<>> = {}
  OBVIOUS
<1> SUFFICES ASSUME out # <<>> PROVE FALSE
  BY <1>1 DEF Processors
<1>2. pos \in Nat \ {0} /\ 0..(NumParts(pos) - 1) = {}
  BY <1>1 DEF RestoreInv, DirectoryParsed, ArchiveInv, AlignInv, TypeOK
<1>3. PICK m \in Nat : m = NumParts(pos) /\ pos <= m * part_size
  BY <1>2, NumPartsCover
<1>4. m = 0
  <2>1. 0 \notin 0..(m - 1)
    BY <1>2, <1>3
  <2> QED
    BY <2>1
<1> QED
  BY <1>2, <1>3, <1>4, CdFetchAssumption

\* Every write goes to the file the data was read from and to the offset it
\* had there (handle_local_header, process_start_of_part_frame, do_write_encoded
\* and do_write_unencoded), for every archive none of whose files was given up
\* half-way, every part size, every division of the parts into chunks and every
\* interleaving of the processors.  Behind it is where a processor may stand:
\* next_entry_idx counts the headers it has passed, and uncompressed_offset the
\* bytes of the frames before its position.
THEOREM DataWrittenInPlace == RestoreSpec => [](~SomeFileAborted => WritesInPlace)
<1>1. ArchiveInv /\ RestoreInv /\ DeliveryInv => (~SomeFileAborted => WritesInPlace)
  <2> SUFFICES ASSUME ArchiveInv, RestoreInv, DeliveryInv, Good,
                      NEW i \in DOMAIN out, NEW w \in out[i].written
               PROVE  w.id = cd_files[i].id /\ w.at = w.uoff
    BY DEF WritesInPlace, Good
  <2>1. proc # <<>>
    BY NothingStarted
  <2>2. Restorable /\ OutputsOK
    BY <2>1 DEF Restorable, DeliveryInv
  <2>3. i \in 1..Len(files) /\ w \in DataOf(files[i].id)
    BY <2>2 DEF OutputsOK, OutputOK
  <2>4. cd_files[i].id = files[i].id
    BY <2>2, <2>3, EntryParsed
  <2> QED
    BY <2>3, <2>4 DEF DataOf
<1> QED
  BY <1>1, DeliveryInvariant, PTL

\* A restore refuses an archive that was written whole, a failing write apart,
\* for known reasons only: build_part_map did not see that a file continues
\* into the part, a chunk ended inside a data descriptor, or the entry lies in
\* a directory that is or was read-only, is a file an earlier restore left
\* read-only, or is a read-only file of several parts.  In particular
\* part_processor_finalize never finds bytes left in the buffer, and a file of
\* one part is never refused for the mode this restore gives it, whatever the
\* paths and permissions, the chunks and the order of the processors.
THEOREM RefusalsExplained == RestoreSpec => [](~SomeFileAborted => FailuresExplained)
<1>1. ArchiveInv /\ RestoreInv /\ DeliveryInv => (~SomeFileAborted => FailuresExplained)
  <2> SUFFICES ASSUME ArchiveInv, RestoreInv, DeliveryInv, Good, NEW p \in Processors
               PROVE  /\ proc[p].error = "INVALID_FRAME" =>
                           ContinuationMissed(p) \/ InsideDescriptor(p)
                      /\ proc[p].error = "IO" => OpenRefused(EntryToOpen(p))
                      /\ proc[p].error # "UNEXPECTED_EOF"
    BY DEF FailuresExplained, Good
  <2>1. proc # <<>>
    BY DEF Processors
  <2>2. Explained(proc[p], p)
    BY <2>1 DEF DeliveryInv, Stands
  <2>3. InDescriptor(proc[p].at) => InsideDescriptor(p)
    BY DEF InDescriptor, InsideDescriptor, Pieces, Body
  <2>4. Wanted(proc[p], p) = EntryToOpen(p)
    BY DEF Wanted, EntryToOpen
  <2> QED
    BY <2>2, <2>3, <2>4 DEF Explained
<1> QED
  BY <1>1, DeliveryInvariant, PTL

(***************************************************************************)
(* What a successful restore delivers.  The data of a part is lost only    *)
(* when its first frames belong to a file build_part_map did not see       *)
(* continuing into it, and no entry of the part follows that would make    *)
(* the processor look at them.                                             *)
(***************************************************************************)
InPart(p, at) == p * part_size <= at /\ at < p * part_size + part_size

DataMissed(p) ==
  LET s == FrameAtPosition(p * part_size)
  IN /\ ContinuationMissed(p)
     /\ \E f \in Pieces : f.kind = "Frame" /\ f.id = s.id /\ InPart(p, f.at)

NoDataMissed == \A p \in Processors : ~DataMissed(p)

\* The data of the frame is in its file.
Stored(f, o) == \E i \in 1..Len(files) : files[i].id = f.id /\ DataRecord(f) \in o[i].written

\* The entry is finished, or q is the processor that will finish it.
InHand(i, q, o) == o[i].finished \/ (q.file = i /\ files[i].kind # "dir")

\* What the processor has left behind.
Passed(q, at) == q.state = "DONE" \/ at < q.at

Delivered(q, p, o) ==
  q.state # "ERROR" =>
    /\ \A f \in Pieces : f.kind = "Frame" /\ InPart(p, f.at) /\ Passed(q, f.at) => Stored(f, o)
    /\ \A i \in EntriesOf(cd_files, p) : Passed(q, files[i].local_header_offset) => InHand(i, q, o)

\* Nothing that was delivered is lost.
LEMMA StillStored ==
  ASSUME Restorable, OutputsGrow, NEW f \in Pieces, f.kind = "Frame", Stored(f, out)
  PROVE  Stored(f, out')
<1>1. PICK i \in 1..Len(files) : files[i].id = f.id /\ DataRecord(f) \in out[i].written
  BY DEF Stored
<1>2. files[i].kind = "file"
  BY <1>1, OwnKind
<1>3. out[i].written \subseteq out'[i].written
  BY <1>2 DEF OutputsGrow, Grows
<1> QED
  BY <1>1, <1>3 DEF Stored

LEMMA DeliveredStill ==
  ASSUME Restorable, OutputsGrow, NEW q, NEW p, Delivered(q, p, out)
  PROVE  Delivered(q, p, out')
<1> SUFFICES ASSUME q.state # "ERROR" PROVE Delivered(q, p, out')
  BY DEF Delivered
<1>1. ASSUME NEW f \in Pieces, f.kind = "Frame", InPart(p, f.at), Passed(q, f.at)
      PROVE  Stored(f, out')
  BY <1>1, StillStored DEF Delivered
<1>2. ASSUME NEW i \in EntriesOf(cd_files, p), Passed(q, files[i].local_header_offset)
      PROVE  InHand(i, q, out')
  <2>1. InHand(i, q, out)
    BY <1>2 DEF Delivered
  <2>2. i \in 1..Len(files)
    BY SeenFinite
  <2>3. out[i].finished => out'[i].finished
    BY <2>2 DEF OutputsGrow, Grows
  <2> QED
    BY <2>1, <2>3 DEF InHand
<1> QED
  BY <1>1, <1>2 DEF Delivered

\* What a step has to deliver: what lies between the old position and the
\* new one, and the file that is given back.
LEMMA DeliversOn ==
  ASSUME NEW p, NEW q, Working(p, q), OutputsGrow, Delivered(q, p, out), q.state # "ERROR",
         NEW n,
         \A f \in Pieces : f.kind = "Frame" /\ InPart(p, f.at) /\ Passed(n, f.at)
                             /\ ~Passed(q, f.at) => Stored(f, out'),
         \A i \in EntriesOf(cd_files, p) :
           Passed(n, files[i].local_header_offset) /\ ~Passed(q, files[i].local_header_offset)
             => InHand(i, n, out'),
         q.file # 0 =>
           n.file = q.file \/ files[q.file].kind = "dir" \/ out'[q.file].finished
  PROVE  Delivered(n, p, out')
<1>1. Restorable
  BY WorkingFacts
<1>2. Delivered(q, p, out')
  BY <1>1, DeliveredStill
<1>3. ASSUME NEW f \in Pieces, f.kind = "Frame", InPart(p, f.at), Passed(n, f.at)
      PROVE  Stored(f, out')
  BY <1>2, <1>3 DEF Delivered
<1>4. ASSUME NEW i \in EntriesOf(cd_files, p), Passed(n, files[i].local_header_offset)
      PROVE  InHand(i, n, out')
  <2>1. CASE ~Passed(q, files[i].local_header_offset)
    BY <1>4, <2>1
  <2>2. CASE Passed(q, files[i].local_header_offset)
    <3>1. InHand(i, q, out')
      BY <1>2, <2>2 DEF Delivered
    <3>2. i # 0
      <4>1. i \in 1..Len(files)
        BY <1>1, SeenFinite
      <4> QED
        BY <4>1
    <3> QED
      BY <3>1, <3>2 DEF InHand
  <2> QED
    BY <2>1, <2>2
<1> QED
  BY <1>3, <1>4 DEF Delivered

\* A step within one piece that is neither data nor a header.
LEMMA DeliversNothing ==
  ASSUME NEW p, NEW q, Working(p, q), OutputsGrow, Delivered(q, p, out), q.state # "ERROR",
         NEW n, n.state # "DONE", n.at \in Nat,
         n.at = q.at \/
           \E s \in Pieces : /\ s.kind \notin {"Frame", "LFH"}
                             /\ s.at <= q.at /\ n.at <= s.at + s.len,
         q.file # 0 =>
           n.file = q.file \/ files[q.file].kind = "dir" \/ out'[q.file].finished
  PROVE  Delivered(n, p, out')
<1>1. Restorable /\ q.at \in Nat
  BY WorkingFacts
<1>2. ASSUME NEW f \in Pieces, f.kind \in {"Frame", "LFH"}, Passed(n, f.at), ~Passed(q, f.at)
      PROVE  FALSE
  <2>1. f.at < n.at /\ ~(f.at < q.at) /\ f.at \in Nat
    BY <1>1, <1>2, PieceTypes DEF Passed
  <2>2. PICK s \in Pieces : /\ s.kind \notin {"Frame", "LFH"}
                            /\ s.at <= q.at /\ n.at <= s.at + s.len
    BY <1>1, <2>1
  <2>3. s.at \in Nat /\ s.len \in Nat
    BY <1>1, PieceTypes
  <2>4. f.at < s.at + s.len
    BY <1>1, <2>1, <2>2, <2>3
  <2>5. f = s \/ f.at < s.at
    BY <1>1, <2>4, BeforeEnd
  <2> QED
    BY <1>1, <1>2, <2>1, <2>2, <2>3, <2>5
<1>3. ASSUME NEW i \in EntriesOf(cd_files, p), Passed(n, files[i].local_header_offset),
             ~Passed(q, files[i].local_header_offset)
      PROVE  FALSE
  <2>1. i \in 1..Len(files)
    BY <1>1, SeenFinite
  <2>2. PICK h \in Pieces : h.kind = "LFH" /\ h.at = files[i].local_header_offset
    BY <1>1, <2>1, EntryHeader
  <2> QED
    BY <1>2, <1>3, <2>2
<1> QED
  BY <1>2, <1>3, DeliversOn

\* A processor that stops has nothing ahead in its part.
LEMMA DeliversAll ==
  ASSUME NEW p, NEW q, Working(p, q), OutputsGrow, Delivered(q, p, out), q.state # "ERROR",
         \/ q.state = "DONE"
         \/ \A s \in Pieces : s.kind \in {"Frame", "LFH"} /\ InPart(p, s.at) => s.at < q.at,
         NEW n,
         q.file # 0 =>
           n.file = q.file \/ files[q.file].kind = "dir" \/ out'[q.file].finished
  PROVE  Delivered(n, p, out')
<1>1. Restorable /\ p \in Nat
  BY WorkingFacts
<1>2. ASSUME NEW f \in Pieces, f.kind \in {"Frame", "LFH"}, InPart(p, f.at)
      PROVE  Passed(q, f.at)
  BY <1>2 DEF Passed
<1>3. ASSUME NEW i \in EntriesOf(cd_files, p)
      PROVE  Passed(q, files[i].local_header_offset)
  <2>1. i \in 1..Len(files)
    BY <1>1, SeenFinite
  <2>2. PICK h \in Pieces : h.kind = "LFH" /\ h.at = files[i].local_header_offset
    BY <1>1, <2>1, EntryHeader
  <2>3. InPart(p, h.at)
    BY <1>1, <2>1, <2>2, EntryInPart DEF InPart
  <2> QED
    BY <1>2, <2>2, <2>3
<1> QED
  BY <1>2, <1>3, DeliversOn

\* Behind a header lies nothing of an entry that was begun before it.
LEMMA NothingBehind ==
  ASSUME Restorable, NEW at \in Nat, Between(at), NEW h \in Pieces, NEW f \in Pieces,
         h.kind = "LFH", h.id = f.id, h.at < at, at <= f.at
  PROVE  FALSE
<1>1. /\ f.at \in Nat /\ f.at < central_dir_start /\ h.at \in Nat
      /\ h.id \in Nat /\ central_dir_start \in Nat
  BY PieceTypes, ArchiveWritten
<1>2. PICK t \in Pieces : t.at = at /\ t.kind \in {"LFH", "PadLFH"}
  BY <1>1 DEF Between
<1>3. t.id <= f.id /\ t.id \in Nat
  BY <1>2, IdsInOrder, PieceTypes
<1>4. h.id < t.id
  BY <1>2, NothingBeforeHeader
<1> QED
  BY <1>1, <1>3, <1>4

\* The last entry of the part was seen: there is no data ahead, or it was
\* missed.
LEMMA NothingLeft ==
  ASSUME NEW p, NEW q, Working(p, q), ~DataMissed(p), q.state = "EXPECT_LOCAL_HEADER",
         NoEntryLeft(p), NEW f \in Pieces, f.kind \in {"Frame", "LFH"}, InPart(p, f.at)
  PROVE  f.at < q.at
<1>1. /\ Restorable /\ p \in Processors /\ q = proc[p] /\ Placement(q, p)
      /\ p \in Nat /\ p * part_size \in Nat /\ p * part_size <= q.at /\ q.at \in Nat
  BY WorkingFacts
<1>2. /\ ExpectsHeader(q.at, p)
      /\ q.next_entry_idx = Cardinality(Seen(p, q.at))
  BY <1>1 DEF Placement, Active
<1>3. ~(Cardinality(Seen(p, q.at)) < Cardinality(EntriesOf(cd_files, p)))
  <2>1. Cardinality(Seen(p, q.at)) \in Nat /\ Cardinality(EntriesOf(cd_files, p)) \in Nat
    BY <1>1, SeenFinite
  <2>2. Cardinality(Seen(p, q.at)) >= Cardinality(EntriesOf(cd_files, p))
    BY <1>1, <1>2 DEF NoEntryLeft
  <2> QED
    BY <2>1, <2>2
<1>4. ASSUME NEW i \in EntriesOf(cd_files, p) PROVE ~(q.at <= files[i].local_header_offset)
  BY <1>1, <1>3, EntriesLeft
<1>5. /\ f.at \in Nat /\ f.at < central_dir_start /\ f.id \in Nat
      /\ central_dir_start \in Nat
  BY <1>1, PieceTypes, ArchiveWritten
<1> SUFFICES ASSUME q.at <= f.at PROVE FALSE
  BY <1>1, <1>5
<1>6. PICK h \in Pieces : h.kind = "LFH" /\ h.id = f.id /\ h.at <= f.at
  BY <1>1, ArchiveWritten DEF Headed
<1>7. PICK i \in 1..Len(files) : files[i].local_header_offset = h.at
  BY <1>1, <1>6, HeaderRecorded
<1>8. h.at \in Nat /\ h.id \in Nat /\ part_size \in Nat
  BY <1>1, PieceTypes, PartEnds
<1>9. h.at < q.at
  <2> SUFFICES ASSUME q.at <= h.at PROVE FALSE
    BY <1>1, <1>8
  <2>1. p * part_size <= h.at /\ h.at < p * part_size + part_size
    <3>1. f.at < p * part_size + part_size
      BY DEF InPart
    <3> QED
      BY <1>1, <1>5, <1>6, <1>8, <3>1
  <2>2. i \in EntriesOf(cd_files, p)
    BY <1>1, <1>7, <2>1, EntryInPart
  <2> QED
    BY <1>4, <1>7, <2>2
<1>10. ~Between(q.at)
  BY <1>1, <1>6, <1>9, NothingBehind
<1>11. ~InDescriptor(q.at)
  <2> SUFFICES ASSUME NEW d \in Pieces, d.kind = "DD", d.at < q.at, q.at < d.at + d.len
               PROVE  FALSE
    BY DEF InDescriptor
  <2>1. d.at \in Nat /\ d.len \in Nat
    BY <1>1, PieceTypes
  <2>2. ~(f.at < d.at + d.len)
    <3>1. f # d /\ ~(f.at < d.at)
      BY <1>1, <1>5, <2>1
    <3> QED
      BY <1>1, <3>1, BeforeEnd
  <2>3. Between(d.at + d.len)
    BY <1>1, BehindEntry
  <2>4. PICK e \in Nat : e = d.at + d.len
    BY <2>1
  <2>5. h.at < e
    BY <1>1, <1>8, <1>9, <2>4
  <2>6. e <= f.at
    BY <1>5, <2>2, <2>4
  <2> QED
    BY <1>1, <1>6, <2>3, <2>4, <2>5, <2>6, NothingBehind
<1>12. q.at = p * part_size /\ ContinuingFile(cd_files, p) = 0
  BY <1>2, <1>10, <1>11 DEF ExpectsHeader
<1>13. PICK t \in Pieces : t.at = p * part_size /\ t.kind \in {"LFH", "PadLFH", "SOP"}
  <2>1. p * part_size < central_dir_start
    BY <1>1, <1>5, <1>12
  <2> QED
    BY <1>1, <2>1, PartBegins
<1>14. t.kind = "SOP"
  BY <1>10, <1>12, <1>13 DEF Between
<1>15. FrameAtPosition(p * part_size) = t
  BY <1>1, <1>13, <1>14, FrameIsPiece
<1>16. t.id = f.id
  <2>1. h.at <= t.at /\ t.at <= f.at /\ t.id \in Nat
    BY <1>1, <1>8, <1>9, <1>12, <1>13, PieceTypes
  <2>2. h.id <= t.id /\ t.id <= f.id
    BY <1>1, <2>1, IdsInOrder
  <2> QED
    BY <1>5, <1>6, <2>1, <2>2
<1>17. f.kind = "Frame"
  <2> SUFFICES ASSUME f.kind = "LFH" PROVE FALSE
    OBVIOUS
  <2>1. f = h
    BY <1>1, <1>6, OneHeader
  <2> QED
    BY <1>1, <1>8, <1>9, <2>1
<1> QED
  BY <1>12, <1>14, <1>15, <1>16, <1>17 DEF DataMissed, ContinuationMissed

\* The state a handler finds, with what was delivered so far.
Delivering(p, q) ==
  /\ Working(p, q)
  /\ OutputsOK
  /\ Delivered(q, p, out)
  /\ ~DataMissed(p)

LEMMA FailureDelivers ==
  ASSUME NEW p, NEW q, Delivering(p, q), NEW code, Fails(p, code)
  PROVE  \E n : Becomes(p, n) /\ Delivered(n, p, out')
<1> DEFINE n == [q EXCEPT !.state = "ERROR", !.error = code]
<1>1. q = proc[p] /\ q \in ProcessorStates
  BY WorkingFacts DEF Delivering
<1>2. Becomes(p, n)
  BY <1>1 DEF Fails
<1>3. n.state = "ERROR"
  BY <1>1 DEF ProcessorStates
<1>4. Delivered(n, p, out')
  BY <1>3 DEF Delivered
<1> QED
  BY <1>2, <1>4

\* Opening a file: from the start of the part, or at its header.
LEMMA OpensDelivers ==
  ASSUME NEW p, NEW q, Delivering(p, q), OutputsGrow, NEW s, s \in Pieces, s.at = q.at,
         q.state \in {"CONTINUING_FILE", "EXPECT_LOCAL_HEADER"},
         NEW i \in 1..Len(files), NEW offset, NEW state, NEW k,
         state \in {"PROCESSING_FRAMES", "READING_SYMLINK"},
         Opens(p, s, i, offset, state, k),
         \/ s.kind = "SOP"
         \/ s.kind = "LFH" /\ files[i].local_header_offset = s.at
  PROVE  \E n : Becomes(p, n) /\ Delivered(n, p, out')
<1>1. /\ q = proc[p] /\ q \in ProcessorStates /\ Restorable /\ ProcessorOK(q, p)
      /\ Working(p, q) /\ q.at \in Nat
  BY WorkingFacts DEF Delivering
<1>2. CASE CanOpen(i)
  <2> DEFINE n == [Past(p, s) EXCEPT !.file = i, !.uncompressed_offset = offset,
                                     !.state = state, !.next_entry_idx = k]
  <2>1. Becomes(p, n) /\ out' = Opened(i)
    BY <1>2, Zenon DEF Opens
  <2>2. n.at = q.at + s.len /\ n.file = i /\ n.state = state
    BY <1>1 DEF Past, ProcessorStates
  <2> HIDE DEF n
  <2>3. s.len \in Nat /\ n.at \in Nat /\ n.at = s.at + s.len /\ s.at <= q.at
    <3>1. s.len \in Nat
      BY <1>1, PieceTypes
    <3> QED
      BY <1>1, <2>2, <3>1
  <2>4. q.file = 0
    BY <1>1 DEF ProcessorOK, HasFile
  <2>5. CASE s.kind = "SOP"
    <3>1. \E t \in Pieces : t.kind \notin {"Frame", "LFH"} /\ t.at <= q.at /\ n.at <= t.at + t.len
      BY <2>3, <2>5
    <3>2. Delivered(n, p, out')
      BY <1>1, <2>2, <2>3, <2>4, <3>1, DeliversNothing DEF Delivering
    <3> QED
      BY <2>1, <3>2
  <2>6. CASE s.kind = "LFH" /\ files[i].local_header_offset = s.at
    <3>1. ASSUME NEW f \in Pieces, Passed(n, f.at), ~Passed(q, f.at) PROVE f = s
      <4>1. f.at \in Nat /\ f.at < s.at + s.len /\ ~(f.at < s.at)
        BY <1>1, <2>2, <2>3, <3>1, PieceTypes DEF Passed
      <4> QED
        BY <1>1, <4>1, BeforeEnd
    <3>2. ASSUME NEW f \in Pieces, f.kind = "Frame", Passed(n, f.at), ~Passed(q, f.at)
          PROVE  Stored(f, out')
      BY <2>6, <3>1, <3>2
    <3>3. ASSUME NEW j \in EntriesOf(cd_files, p), Passed(n, files[j].local_header_offset),
                 ~Passed(q, files[j].local_header_offset)
          PROVE  InHand(j, n, out')
      <4>1. j \in 1..Len(files)
        BY <1>1, SeenFinite
      <4>2. PICK h \in Pieces : h.kind = "LFH" /\ h.at = files[j].local_header_offset
        BY <1>1, <4>1, EntryHeader
      <4>3. h = s
        BY <3>1, <3>3, <4>2
      <4>4. j = i
        BY <1>1, <2>6, <4>1, <4>2, <4>3, EntryOffsets
      <4>5. files[i].kind = "dir" => out'[i].finished
        BY <1>1, <2>1, OpenedGrows DEF Delivering
      <4> QED
        BY <2>2, <4>4, <4>5 DEF InHand
    <3>4. Delivered(n, p, out')
      BY <1>1, <2>4, <3>2, <3>3, DeliversOn DEF Delivering
    <3> QED
      BY <2>1, <3>4
  <2> QED
    BY <2>5, <2>6
<1>3. CASE ~CanOpen(i)
  BY <1>3, FailureDelivers, Zenon DEF Opens
<1> QED
  BY <1>2, <1>3

LEMMA ContinueFileDelivers ==
  ASSUME NEW p, NEW q, Delivering(p, q), OutputsGrow, NEW s, s = FrameAtPosition(q.at),
         ContinueFile(p, s)
  PROVE  \E n : Becomes(p, n) /\ Delivered(n, p, out')
<1>1. /\ q = proc[p] /\ Restorable /\ ProcessorOK(q, p) /\ p \in Processors
      /\ Working(p, q) /\ Placement(q, p)
  BY WorkingFacts DEF Delivering
<1>2. q.state = "CONTINUING_FILE"
  BY <1>1 DEF ContinueFile, Handles
<1>3. ContinuingFile(cd_files, p) # 0 /\ q.at = p * part_size
  BY <1>1, <1>2 DEF ProcessorOK, Placement
<1>4. PICK i : i = ContinuingFile(cd_files, p)
  OBVIOUS
<1>5. i \in 1..Len(files) /\ \E t \in Pieces : t.at = p * part_size /\ t.kind = "SOP"
  BY <1>1, <1>3, <1>4, Continues
<1>6. s \in Pieces /\ s.at = q.at /\ s.kind = "SOP"
  BY <1>1, <1>3, <1>5, FrameIsPiece
<1>7. Opens(p, s, i, SopOffset(s), "PROCESSING_FRAMES", q.next_entry_idx)
  BY <1>1, <1>4 DEF ContinueFile
<1>8. PICK offset, state, k : Opens(p, s, i, offset, state, k) /\ state = "PROCESSING_FRAMES"
  BY <1>7, Zenon
<1> QED
  BY <1>2, <1>5, <1>6, <1>8, OpensDelivers

LEMMA OpenEntryDelivers ==
  ASSUME NEW p, NEW q, Delivering(p, q), OutputsGrow, NEW s, s = FrameAtPosition(q.at),
         Ready(p, s), OpenEntry(p, s)
  PROVE  \E n : Becomes(p, n) /\ Delivered(n, p, out')
<1>1. q = proc[p] /\ Working(p, q)
  BY WorkingFacts DEF Delivering
<1>2. q.state = "EXPECT_LOCAL_HEADER"
  BY <1>1 DEF OpenEntry, Handles
<1>3. PICK i : i = EntryAt(cd_files, p, q.next_entry_idx)
  OBVIOUS
<1>4. /\ s \in Pieces /\ s.at = q.at /\ s.kind = "LFH"
      /\ i \in 1..Len(files) /\ files[i].local_header_offset = s.at
  BY <1>1, <1>3, HeaderOfNextEntry
<1>5. Opens(p, s, i, 0,
            IF cd_files[i].kind = "symlink" THEN "READING_SYMLINK" ELSE "PROCESSING_FRAMES",
            q.next_entry_idx + 1)
  BY <1>1, <1>3, Zenon DEF OpenEntry
<1>6. PICK offset, state, k : /\ Opens(p, s, i, offset, state, k)
                              /\ state \in {"PROCESSING_FRAMES", "READING_SYMLINK"}
  BY <1>5, Zenon
<1> QED
  BY <1>2, <1>4, <1>6, OpensDelivers

\* Frames, padding and the Start-of-Part frames within a file.
LEMMA ConsumingDelivers ==
  ASSUME NEW p, NEW q, Delivering(p, q), OutputsGrow, NEW s, s = FrameAtPosition(q.at),
         SkipPadding(p, s) \/ WriteData(p, s) \/ StartOfPartInFile(p, s)
  PROVE  \E n : Becomes(p, n) /\ Delivered(n, p, out')
<1>1. /\ q = proc[p] /\ Restorable /\ Working(p, q) /\ q \in ProcessorStates
      /\ q.at \in Nat /\ OutputsOK /\ Delivered(q, p, out)
  BY WorkingFacts DEF Delivering
<1>2. /\ q.state \in {"EXPECT_LOCAL_HEADER", "PROCESSING_FRAMES"}
      /\ s.kind \in {"Pad", "PadLFH", "Frame", "SOP"}
      /\ s.kind \in {"Frame", "SOP"} => q.state = "PROCESSING_FRAMES"
      /\ q.state = "EXPECT_LOCAL_HEADER" => ~NoEntryLeft(p)
  BY <1>1 DEF SkipPadding, WriteData, StartOfPartInFile, Handles
<1>3. s \in Pieces /\ s.at = q.at
  <2>1. CASE q.state = "PROCESSING_FRAMES"
    BY <1>1, <1>2, <2>1, ProcessingFacts
  <2>2. CASE q.state = "EXPECT_LOCAL_HEADER"
    BY <1>1, <1>2, <2>2, ExpectingFacts
  <2> QED
    BY <1>2, <2>1, <2>2
<1>4. s.len \in Nat
  BY <1>1, <1>3, PieceTypes
<1>5. ASSUME NEW n, n.at = q.at + s.len, n.state = q.state, n.file = q.file, Becomes(p, n),
             s.kind # "Frame" \/ Stored(s, out')
      PROVE  \E m : Becomes(p, m) /\ Delivered(m, p, out')
  <2>1. n.at \in Nat /\ n.at = s.at + s.len /\ s.at <= q.at /\ n.at <= s.at + s.len
    BY <1>1, <1>3, <1>4, <1>5
  <2>2. CASE s.kind # "Frame"
    <3>1. \E t \in Pieces : t.kind \notin {"Frame", "LFH"} /\ t.at <= q.at /\ n.at <= t.at + t.len
      BY <1>2, <1>3, <2>1, <2>2
    <3>2. Delivered(n, p, out')
      BY <1>1, <1>2, <1>5, <2>1, <3>1, DeliversNothing
    <3> QED
      BY <1>5, <3>2
  <2>3. CASE s.kind = "Frame"
    <3>1. ASSUME NEW f \in Pieces, Passed(n, f.at), ~Passed(q, f.at) PROVE f = s
      <4>1. f.at \in Nat /\ f.at < s.at + s.len /\ ~(f.at < s.at)
        BY <1>1, <1>2, <1>3, <1>5, <2>1, <3>1, PieceTypes DEF Passed
      <4> QED
        BY <1>1, <1>3, <4>1, BeforeEnd
    <3>2. ASSUME NEW f \in Pieces, f.kind = "Frame", Passed(n, f.at), ~Passed(q, f.at)
          PROVE  Stored(f, out')
      BY <1>5, <2>3, <3>1, <3>2
    <3>3. ASSUME NEW j \in EntriesOf(cd_files, p), Passed(n, files[j].local_header_offset),
                 ~Passed(q, files[j].local_header_offset)
          PROVE  InHand(j, n, out')
      <4>1. j \in 1..Len(files)
        BY <1>1, SeenFinite
      <4>2. PICK h \in Pieces : h.kind = "LFH" /\ h.at = files[j].local_header_offset
        BY <1>1, <4>1, EntryHeader
      <4>3. h = s
        BY <3>1, <3>3, <4>2
      <4> QED
        BY <2>3, <4>2, <4>3
    <3>4. Delivered(n, p, out')
      BY <1>1, <1>2, <1>5, <3>2, <3>3, DeliversOn
    <3> QED
      BY <1>5, <3>4
  <2> QED
    BY <2>2, <2>3
<1>6. CASE SkipPadding(p, s)
  <2>1. Becomes(p, Past(p, s)) /\ s.kind # "Frame"
    BY <1>6 DEF SkipPadding, Handles
  <2>2. /\ Past(p, s).at = q.at + s.len /\ Past(p, s).state = q.state
        /\ Past(p, s).file = q.file
    BY <1>1 DEF Past, ProcessorStates
  <2> QED
    BY <1>5, <2>1, <2>2
<1>7. ASSUME NEW u, Becomes(p, [Past(p, s) EXCEPT !.uncompressed_offset = u]),
             s.kind # "Frame" \/ Stored(s, out')
      PROVE  \E m : Becomes(p, m) /\ Delivered(m, p, out')
  <2> DEFINE n == [Past(p, s) EXCEPT !.uncompressed_offset = u]
  <2>1. n.at = q.at + s.len /\ n.state = q.state /\ n.file = q.file
    BY <1>1 DEF Past, ProcessorStates
  <2> HIDE DEF n
  <2> QED
    BY <1>5, <1>7, <2>1 DEF n
<1>8. CASE StartOfPartInFile(p, s)
  <2>1. s.kind # "Frame"
    BY <1>8 DEF StartOfPartInFile, Handles
  <2>2. \/ Becomes(p, [Past(p, s) EXCEPT !.uncompressed_offset = SopOffset(s)])
        \/ Fails(p, "INVALID_FRAME")
    BY <1>8, Zenon DEF StartOfPartInFile
  <2> QED
    BY <1>7, <2>1, <2>2, FailureDelivers
<1>9. CASE WriteData(p, s)
  <2>1. s.kind = "Frame" /\ q.state = "PROCESSING_FRAMES"
    BY <1>1, <1>9 DEF WriteData, Handles
  <2>2. /\ q.file \in 1..Len(files) /\ s.id = files[q.file].id /\ s.uoff = q.uncompressed_offset
    BY <1>1, <2>1, ProcessingFacts
  <2>3. CASE Fails(p, "BTRFS_WRITE")
    BY <2>3, FailureDelivers
  <2>4. CASE /\ Becomes(p, [Past(p, s) EXCEPT !.uncompressed_offset = @ + s.ulen])
             /\ out' = Written(q.file, s, q.uncompressed_offset)
    <3>1. out' = Written(q.file, s, s.uoff)
      BY <2>2, <2>4
    <3>2. DataRecord(s) \in out'[q.file].written
      BY <1>1, <1>3, <2>1, <2>2, <3>1, WrittenGrows
    <3>3. Stored(s, out')
      BY <2>2, <3>2 DEF Stored
    <3>4. PICK u : u = Past(p, s).uncompressed_offset + s.ulen
      OBVIOUS
    <3>5. Becomes(p, [Past(p, s) EXCEPT !.uncompressed_offset = u])
      BY <2>4, <3>4, Zenon
    <3> QED
      BY <1>7, <3>3, <3>5
  <2> QED
    BY <1>1, <1>9, <2>3, <2>4, Zenon DEF WriteData
<1> QED
  BY <1>6, <1>8, <1>9

\* The end of a file: its descriptor, or the next header.
LEMMA LeavingDelivers ==
  ASSUME NEW p, NEW q, Delivering(p, q), OutputsGrow, NEW s, s = FrameAtPosition(q.at),
         Ready(p, s), EndOfFile(p, s) \/ NextHeader(p, s)
  PROVE  \E n : Becomes(p, n) /\ Delivered(n, p, out')
<1>1. /\ q = proc[p] /\ Restorable /\ Working(p, q) /\ q \in ProcessorStates
      /\ q.at \in Nat /\ q.received \in Nat /\ OutputsOK /\ Delivered(q, p, out)
      /\ q.at <= q.received
  BY WorkingFacts DEF Delivering
<1>2. q.state = "PROCESSING_FRAMES" /\ out' = Closed(q)
  BY <1>1, Zenon DEF EndOfFile, NextHeader, Handles
<1>3. q.file # 0 => files[q.file].kind = "dir" \/ out'[q.file].finished
  BY <1>1, <1>2, LeavesFile
<1>4. CASE NextHeader(p, s)
  <2> DEFINE n == [WithoutFile(q) EXCEPT !.state = "EXPECT_LOCAL_HEADER"]
  <2>1. Becomes(p, n)
    BY <1>1, <1>4 DEF NextHeader
  <2>2. n.at = q.at /\ n.state = "EXPECT_LOCAL_HEADER"
    BY <1>1 DEF WithoutFile, ProcessorStates
  <2> HIDE DEF n
  <2>3. n.at \in Nat /\ n.state # "DONE"
    BY <1>1, <2>2
  <2>4. Delivered(n, p, out')
    BY <1>1, <1>2, <1>3, <2>2, <2>3, DeliversNothing
  <2> QED
    BY <2>1, <2>4
<1>5. CASE EndOfFile(p, s)
  <2>1. /\ s \in Pieces /\ s.at = q.at /\ s.kind = "DD" /\ s.id = files[q.file].id
        /\ q.file \in 1..Len(files)
    <3>1. s.kind = "DD"
      BY <1>5 DEF EndOfFile, Handles
    <3> QED
      BY <1>1, <1>2, <3>1, ProcessingFacts
  <2>2. s.len = ParsedDescriptorSize(cd_files[q.file]) /\ s.len \in Nat
    BY <1>1, <2>1, OwnKind, PieceTypes
  <2>3. PICK end \in Nat : end = q.at + s.len
    BY <1>1, <2>2
  <2>4. end = q.at + ParsedDescriptorSize(cd_files[q.file])
    BY <2>2, <2>3
  <2>5. PICK at \in Nat : at = Min({end, q.received}) /\ at <= end
    <3>1. end \in Int /\ q.received \in Int
      BY <1>1
    <3>2. Min({end, q.received}) = IF end <= q.received THEN end ELSE q.received
      BY <3>1, MinMaxOfTwo, Zenon
    <3> QED
      BY <1>1, <3>2
  <2> DEFINE n == [WithoutFile(q) EXCEPT !.at = at, !.state = "EXPECT_LOCAL_HEADER"]
  <2>6. Becomes(p, n)
    <3>1. Becomes(p, [WithoutFile(q) EXCEPT !.at = Min({end, q.received}),
                                            !.state = "EXPECT_LOCAL_HEADER"])
      BY <1>1, <1>5, <2>4, Zenon DEF EndOfFile
    <3> QED
      BY <2>5, <3>1, Zenon
  <2>7. n.at = at /\ n.state = "EXPECT_LOCAL_HEADER"
    BY <1>1 DEF WithoutFile, ProcessorStates
  <2> HIDE DEF n
  <2>8. n.at \in Nat /\ s.at <= q.at /\ n.at <= s.at + s.len /\ n.state # "DONE"
    BY <1>1, <2>1, <2>3, <2>5, <2>7
  <2>9. \E t \in Pieces : t.kind \notin {"Frame", "LFH"} /\ t.at <= q.at /\ n.at <= t.at + t.len
    BY <2>1, <2>8
  <2>10. Delivered(n, p, out')
    BY <1>1, <1>2, <1>3, <2>8, <2>9, DeliversNothing
  <2> QED
    BY <2>6, <2>10 DEF n
<1> QED
  BY <1>4, <1>5

LEMMA ReadSymlinkDelivers ==
  ASSUME NEW p, NEW q, Delivering(p, q), OutputsGrow, ReadSymlink(p)
  PROVE  \E n : Becomes(p, n) /\ Delivered(n, p, out')
<1>1. /\ q = proc[p] /\ Restorable /\ Working(p, q) /\ q \in ProcessorStates
      /\ q.at \in Nat /\ OutputsOK /\ Delivered(q, p, out)
  BY WorkingFacts DEF Delivering
<1>2. PICK read \in ProcessorStates, c \in Pieces : TargetStep(p, q, read, c)
  BY <1>1, TargetRead, Zenon
<1>3. q.state = "READING_SYMLINK"
  BY <1>1 DEF ReadSymlink
<1>4. /\ c.at \in Nat /\ c.len \in Nat /\ read.at \in Nat /\ read.symlink_bytes_read \in Nat
  <2>1. c.at \in Nat /\ c.len \in Nat
    BY <1>1, PieceTypes
  <2>2. read.at \in Nat /\ read.symlink_bytes_read \in Nat
    BY DEF ProcessorStates
  <2> QED
    BY <2>1, <2>2
<1>5. c.kind = "Content" /\ c.at <= q.at /\ read.at <= c.at + c.len
  <2>1. read.symlink_bytes_read = c.len \/ read.symlink_bytes_read < c.len
    BY <1>2 DEF TargetStep
  <2>2. read.at = c.at + read.symlink_bytes_read /\ c.kind = "Content" /\ c.at <= q.at
    BY <1>2 DEF TargetStep
  <2> QED
    BY <1>4, <2>1, <2>2
<1>6. \E t \in Pieces : t.kind \notin {"Frame", "LFH"} /\ t.at <= q.at /\ read.at <= t.at + t.len
  BY <1>5
<1>7. CASE Becomes(p, read)
  <2>1. read.state = "READING_SYMLINK" /\ read.file = q.file
    BY <1>2 DEF TargetStep
  <2>2. Delivered(read, p, out')
    BY <1>1, <1>3, <1>4, <1>6, <2>1, DeliversNothing
  <2> QED
    BY <1>7, <2>2
<1>8. CASE /\ Becomes(p, [WithoutFile(read) EXCEPT !.state = "EXPECT_LOCAL_HEADER"])
           /\ read.symlink_bytes_read = c.len
           /\ out' = Closed(read)
  <2> DEFINE n == [WithoutFile(read) EXCEPT !.state = "EXPECT_LOCAL_HEADER"]
  <2>1. n.state = "EXPECT_LOCAL_HEADER" /\ n.at = read.at
    BY DEF WithoutFile, ProcessorStates
  <2>2. /\ read.file \in 1..Len(files) /\ c.kind = "Content" /\ read.file = q.file
        /\ c.id = files[read.file].id /\ read.symlink_source = c.id
    BY <1>2 DEF TargetStep
  <2>3. read.file # 0 => files[read.file].kind = "dir" \/ out'[read.file].finished
    <3>1. Permitted /\ Begun(read.file) /\ q \in ProcessorStates
      BY <1>1, <2>2, WorkingFacts DEF Working, Permitted
    <3> QED
      BY <1>1, <1>8, <2>2, <3>1, ClosedGrows
  <2> HIDE DEF n
  <2>4. Delivered(n, p, out')
    BY <1>1, <1>3, <1>4, <1>6, <2>1, <2>2, <2>3, DeliversNothing
  <2> QED
    BY <1>8, <2>4 DEF n
<1> QED
  BY <1>2, <1>7, <1>8 DEF TargetStep

LEMMA ReceiveDelivers ==
  ASSUME NEW p, NEW q, Delivering(p, q), OutputsGrow, NEW k \in ChunkSizes, ReceiveChunk(p, k)
  PROVE  \E n : Becomes(p, n) /\ Delivered(n, p, out')
<1>1. /\ q = proc[p] /\ Working(p, q) /\ q \in ProcessorStates /\ q.at \in Nat
      /\ Delivered(q, p, out)
  BY WorkingFacts DEF Delivering
<1>2. PICK received : Becomes(p, [q EXCEPT !.received = received])
  BY <1>1 DEF ReceiveChunk
<1>3. q.state \notin {"DONE", "ERROR"}
  BY <1>1 DEF ReceiveChunk, Open
<1> DEFINE n == [q EXCEPT !.received = received]
<1>4. n.at = q.at /\ n.file = q.file /\ n.state = q.state
  BY <1>1 DEF ProcessorStates
<1> HIDE DEF n
<1>5. n.at \in Nat /\ n.state # "DONE"
  BY <1>1, <1>3, <1>4
<1>6. Delivered(n, p, out')
  BY <1>1, <1>3, <1>4, <1>5, DeliversNothing
<1> QED
  BY <1>2, <1>6 DEF n

\* The processors that stop: at the directory, behind the last entry of the
\* part, or at the end of its bytes.
LEMMA StoppingDelivers ==
  ASSUME NEW p, NEW q, Delivering(p, q), OutputsGrow, NEW s, s = FrameAtPosition(q.at),
         ReachDirectory(p, s) \/ StopAtLastEntry(p) \/ (~Ready(p, s) /\ FinalizePart(p))
  PROVE  \E n : Becomes(p, n) /\ Delivered(n, p, out')
<1>1. /\ q = proc[p] /\ Restorable /\ Working(p, q) /\ q \in ProcessorStates /\ q.at \in Nat
      /\ p \in Processors /\ ProcessorOK(q, p) /\ OutputsOK /\ Delivered(q, p, out)
      /\ ~DataMissed(p)
  BY WorkingFacts DEF Delivering
<1>2. \A t \in Pieces : t.at \in Nat /\ t.at < central_dir_start
  BY <1>1, PieceTypes
<1>3. CASE ReachDirectory(p, s)
  <2>1. /\ q.state \in {"PROCESSING_FRAMES", "EXPECT_LOCAL_HEADER"} /\ s.kind = "CDFH"
        /\ q.state = "EXPECT_LOCAL_HEADER" => ~NoEntryLeft(p)
        /\ out' = Closed(q)
    BY <1>1, <1>3, Zenon DEF ReachDirectory, Handles
  <2>2. q.at = central_dir_start
    <3>1. \A t \in Pieces : t.kind # "CDFH"
      BY <1>1, PieceTypes
    <3>2. CASE q.state = "PROCESSING_FRAMES"
      BY <1>1, <2>1, <3>1, <3>2, ProcessingFacts
    <3>3. CASE q.state = "EXPECT_LOCAL_HEADER"
      BY <1>1, <2>1, <3>1, <3>3, ExpectingFacts
    <3> QED
      BY <2>1, <3>2, <3>3
  <2>3. q.file # 0 => files[q.file].kind = "dir" \/ out'[q.file].finished
    BY <1>1, <2>1, LeavesFile
  <2>4. PICK n : Becomes(p, n)
    BY <1>1, <1>3 DEF ReachDirectory
  <2>5. \A t \in Pieces : t.at < q.at
    BY <1>2, <2>2
  <2>6. Delivered(n, p, out')
    BY <1>1, <2>1, <2>3, <2>5, DeliversAll
  <2> QED
    BY <2>4, <2>6
<1>4. CASE StopAtLastEntry(p)
  <2>1. q.state = "EXPECT_LOCAL_HEADER" /\ NoEntryLeft(p)
    BY <1>1, <1>4 DEF StopAtLastEntry
  <2>2. q.file = 0
    BY <1>1, <2>1 DEF ProcessorOK, HasFile
  <2>3. \A t \in Pieces : t.kind \in {"Frame", "LFH"} /\ InPart(p, t.at) => t.at < q.at
    BY <1>1, <2>1, NothingLeft
  <2>4. PICK n : Becomes(p, n)
    BY <1>1, <1>4 DEF StopAtLastEntry
  <2>5. Delivered(n, p, out')
    BY <1>1, <2>1, <2>2, <2>3, DeliversAll
  <2> QED
    BY <2>4, <2>5
<1>5. CASE ~Ready(p, s) /\ FinalizePart(p)
  <2>1. /\ q.at = q.received /\ q.state # "READING_SYMLINK"
        /\ Becomes(p, [WithoutFile(q) EXCEPT !.state = "DONE", !.finalized = TRUE])
    BY <1>1, <1>5, FinalizeEmpty
  <2>2. /\ q.state # "ERROR" /\ out' = Closed(q)
        /\ q.state = "DONE" \/ q.received = PartDataEnd(p)
    BY <1>1, <1>5 DEF FinalizePart, Open
  <2>3. q.file # 0 => files[q.file].kind = "dir" \/ out'[q.file].finished
    BY <1>1, <2>1, <2>2, LeavesFile
  <2>4. \/ q.state = "DONE"
        \/ \A t \in Pieces : t.kind \in {"Frame", "LFH"} /\ InPart(p, t.at) => t.at < q.at
    BY <1>1, <2>1, <2>2, PartCovers DEF InPart
  <2>5. PICK n : Becomes(p, n)
    BY <2>1
  <2>6. Delivered(n, p, out')
    BY <1>1, <2>2, <2>3, <2>4, DeliversAll
  <2> QED
    BY <2>5, <2>6
<1> QED
  BY <1>3, <1>4, <1>5

\* One step of any processor.
LEMMA PartDelivers ==
  ASSUME NEW p, NEW q, Delivering(p, q), PartSteps(p)
  PROVE  \E n : Becomes(p, n) /\ Delivered(n, p, out')
<1>1. q = proc[p] /\ Working(p, q) /\ OutputsOK
  BY WorkingFacts DEF Delivering
<1>2. PICK s : s = FrameAtPosition(q.at)
  OBVIOUS
<1>3. OutputsGrow
  BY <1>1, PartGrows
<1>4. \/ Ready(p, s) /\ (ContinueFile(p, s) \/ OpenEntry(p, s))
      \/ SkipPadding(p, s) \/ WriteData(p, s) \/ StartOfPartInFile(p, s)
      \/ Ready(p, s) /\ (EndOfFile(p, s) \/ NextHeader(p, s))
      \/ ReachDirectory(p, s) \/ StopAtLastEntry(p) \/ (~Ready(p, s) /\ FinalizePart(p))
      \/ ReadSymlink(p)
      \/ RejectFrame(p, s)
      \/ \E c \in ChunkSizes : ReceiveChunk(p, c)
  BY <1>1, <1>2 DEF PartSteps
<1>5. CASE Ready(p, s) /\ (ContinueFile(p, s) \/ OpenEntry(p, s))
  BY <1>2, <1>3, <1>5, ContinueFileDelivers, OpenEntryDelivers
<1>6. CASE SkipPadding(p, s) \/ WriteData(p, s) \/ StartOfPartInFile(p, s)
  BY <1>2, <1>3, <1>6, ConsumingDelivers
<1>7. CASE Ready(p, s) /\ (EndOfFile(p, s) \/ NextHeader(p, s))
  BY <1>2, <1>3, <1>7, LeavingDelivers
<1>8. CASE ReachDirectory(p, s) \/ StopAtLastEntry(p) \/ (~Ready(p, s) /\ FinalizePart(p))
  BY <1>2, <1>3, <1>8, StoppingDelivers
<1>9. CASE RejectFrame(p, s)
  BY <1>9, FailureDelivers DEF RejectFrame
<1> QED
  BY <1>3, <1>4, <1>5, <1>6, <1>7, <1>8, <1>9, ReadSymlinkDelivers, ReceiveDelivers

(***************************************************************************)
(* The third inductive invariant: what the processors have passed is where *)
(* it belongs.                                                             *)
(***************************************************************************)
PassedInv ==
  proc # <<>> /\ Good /\ NoDataMissed => \A p \in Processors : Delivered(proc[p], p, out)

LEMMA FreshPassed == Fresh => PassedInv
<1> SUFFICES ASSUME Fresh, NEW p \in Processors PROVE Delivered(proc[p], p, out)
  BY DEF PassedInv
<1>1. Restorable /\ proc[p] = NewProcessor(cd_files, p)
  BY DEF Fresh
<1>2. proc[p].at = p * part_size /\ proc[p].state # "DONE"
  BY <1>1 DEF NewProcessor
<1>3. p \in Nat /\ p * part_size \in Nat
  BY <1>1, PartEnds
<1>4. ASSUME NEW f \in Pieces, InPart(p, f.at) PROVE ~Passed(proc[p], f.at)
  <2>1. f.at \in Nat
    BY <1>1, PieceTypes
  <2> QED
    BY <1>2, <1>3, <1>4, <2>1 DEF InPart, Passed
<1>5. ASSUME NEW i \in EntriesOf(cd_files, p)
      PROVE  ~Passed(proc[p], files[i].local_header_offset)
  <2>1. i \in 1..Len(files)
    BY <1>1, SeenFinite
  <2>2. PICK h \in Pieces : h.at = files[i].local_header_offset
    BY <1>1, <2>1, EntryHeader
  <2>3. InPart(p, h.at)
    BY <1>1, <1>3, <2>1, <2>2, EntryInPart DEF InPart
  <2> QED
    BY <1>4, <2>2, <2>3
<1> QED
  BY <1>4, <1>5 DEF Delivered

LEMMA PassedStep ==
  ASSUME ArchiveInv, RestoreInv, DeliveryInv, PassedInv, RestoreSteps
  PROVE  PassedInv'
<1>1. PICK p \in Processors : PartSteps(p)
  BY DEF RestoreSteps
<1>2. /\ phase' = phase /\ pos' = pos /\ files' = files /\ cd_files' = cd_files
      /\ layout' = layout /\ attempts' = attempts /\ central_dir_start' = central_dir_start
      /\ place' = place
  BY DEF RestoreSteps, vars, finalizeVars
<1>3. Good' <=> Good
  BY <1>2 DEF Good, SomeFileAborted, Recorded, NoneAtFieldLimit, AtFieldLimit
<1>4. \A r : DataMissed(r)' <=> DataMissed(r)
  BY <1>2 DEF DataMissed, ContinuationMissed, FrameAtPosition, Pieces, Body, InPart
<1>5. proc # <<>>
  BY DEF Processors
<1> SUFFICES ASSUME Good, NoDataMissed' PROVE \A r \in Processors' : Delivered(proc[r], r, out)'
  BY <1>3 DEF PassedInv
<1>6. Restorable /\ OutputsOK /\ Permitted /\ \A r \in Processors : Stands(proc[r], r)
  BY <1>5 DEF Restorable, DeliveryInv
<1>7. Working(p, proc[p])
  BY <1>6 DEF Working
<1>8. OutputsGrow
  BY <1>1, <1>6, <1>7, PartGrows
<1>9. PICK x : Becomes(p, x)
  BY <1>1, <1>7, PartStands
<1>10. DOMAIN proc' = DOMAIN proc
  BY <1>9 DEF Becomes
<1>11. NoDataMissed
  BY <1>4, <1>10 DEF NoDataMissed, Processors
<1>12. \A r \in Processors : Delivered(proc[r], r, out)
  BY <1>5, <1>11 DEF PassedInv
<1>13. Delivering(p, proc[p])
  BY <1>6, <1>7, <1>11, <1>12 DEF Delivering, NoDataMissed
<1>14. PICK n : Becomes(p, n) /\ Delivered(n, p, out')
  BY <1>1, <1>13, PartDelivers
<1>15. \A r \in Processors : Delivered(proc[r], r, out')
  BY <1>6, <1>8, <1>12, DeliveredStill
<1>16. \A r \in Processors' : r \in Processors /\ Delivered(proc'[r], r, out')
  BY <1>14, <1>15 DEF Becomes, Processors
<1>17. \A r, y, o : Delivered(y, r, o) => Delivered(y, r, o)'
  BY <1>2 DEF Delivered, Stored, InHand, Pieces, Body, InPart, Passed
<1> QED
  BY <1>16, <1>17 DEF Delivered

LEMMA PassedInvStep ==
  ASSUME ArchiveInv, RestoreInv, DeliveryInv, PassedInv, ArchiveInv', RestoreInv',
         [RestoreNext]_restoreVars
  PROVE  PassedInv' \/ Fresh'
<1>1. CASE WriterSteps
  <2>1. phase # "done"
    BY <1>1 DEF WriterSteps, BeginFile, AddHeaderOnly, AddSymlink, NextEntry, WriteFrame,
                EndFile, AbortFile, BeginFinalize, WriteCentralHeader, WriteEndRecords
  <2>2. proc' = <<>>
    BY <1>1, <2>1 DEF RestoreInv, DirectoryParsed, WriterSteps
  <2> QED
    BY <2>2 DEF PassedInv
<1>2. CASE BeginRestore
  BY <1>2, BeginRestoreDelivers DEF PassedInv
<1>3. CASE RestoreSteps
  BY <1>3, PassedStep
<1>4. CASE UNCHANGED restoreVars
  <2>1. /\ phase' = phase /\ pos' = pos /\ files' = files /\ cd_files' = cd_files
        /\ layout' = layout /\ attempts' = attempts /\ central_dir_start' = central_dir_start
        /\ proc' = proc /\ out' = out
    BY <1>4 DEF restoreVars, vars, finalizeVars
  <2>2. Good' <=> Good
    BY <2>1 DEF Good, SomeFileAborted, Recorded, NoneAtFieldLimit, AtFieldLimit
  <2>3. \A r : DataMissed(r)' <=> DataMissed(r)
    BY <2>1 DEF DataMissed, ContinuationMissed, FrameAtPosition, Pieces, Body, InPart
  <2>4. \A r \in Processors : Delivered(proc[r], r, out) => Delivered(proc[r], r, out)'
    BY <2>1 DEF Delivered, Stored, InHand, Pieces, Body, InPart, Passed
  <2> QED
    BY <2>1, <2>2, <2>3, <2>4 DEF PassedInv, NoDataMissed, Processors
<1> QED
  BY <1>1, <1>2, <1>3, <1>4 DEF RestoreNext

LEMMA PassedInvariant == RestoreSpec => [](ArchiveInv /\ RestoreInv /\ DeliveryInv /\ PassedInv)
<1>1. RestoreInit => PassedInv
  BY DEF RestoreInit, PassedInv
<1>2. ArchiveInv /\ RestoreInv /\ DeliveryInv /\ PassedInv /\ ArchiveInv' /\ RestoreInv'
        /\ [RestoreNext]_restoreVars => PassedInv' \/ Fresh'
  BY PassedInvStep
<1> QED
  BY <1>1, <1>2, FreshPassed, DeliveryInvariant, PTL DEF RestoreSpec

\* When every processor is finalized, every entry is restored.
LEMMA AllRestored ==
  ASSUME Restorable, DeliveryInv, PassedInv, NoDataMissed, AllFinalized,
         NEW i \in 1..Len(files)
  PROVE  Restored(i)
<1>1. OutputsOK
  BY DEF DeliveryInv, Restorable
<1>2. ASSUME NEW p \in Processors
      PROVE  /\ proc[p].state = "DONE" /\ proc[p].file = 0
             /\ Delivered(proc[p], p, out)
  <2>1. Stands(proc[p], p) /\ ProcessorOK(proc[p], p) /\ Delivered(proc[p], p, out)
    BY DEF DeliveryInv, PassedInv, Restorable, RestoreInv
  <2>2. proc[p].state = "DONE"
    BY <2>1 DEF AllFinalized, Stands, Placement
  <2> QED
    BY <2>1, <2>2 DEF ProcessorOK, HasFile
<1>3. out[i].finished
  <2>1. PICK h \in Pieces : h.at = files[i].local_header_offset
    BY EntryHeader
  <2>2. PICK p \in Processors : p * part_size <= h.at /\ h.at < p * part_size + part_size
    BY ProcessorOfPiece
  <2>3. i \in EntriesOf(cd_files, p)
    BY <2>1, <2>2, EntryInPart, PartEnds
  <2>4. InHand(i, proc[p], out)
    BY <1>2, <2>3 DEF Delivered, Passed
  <2> QED
    BY <1>2, <2>4 DEF InHand
<1>4. OutputOK(i, out[i])
  BY <1>1 DEF OutputsOK
<1>5. ASSUME NEW w \in DataOf(files[i].id)
      PROVE  w \in out[i].written \/ (files[i].kind = "symlink" /\ InReadOnlyDirectory(i))
  <2>1. PICK s \in Pieces : /\ s.id = files[i].id /\ s.kind \in {"Frame", "Content"}
                            /\ w = DataRecord(s)
    BY DataOfEntry
  <2>2. CASE s.kind = "Content"
    <3>1. files[i].kind = "symlink"
      BY <2>1, <2>2, OwnKind
    <3> QED
      BY <1>3, <1>4, <3>1 DEF OutputOK
  <2>3. CASE s.kind = "Frame"
    <3>1. PICK p \in Processors : InPart(p, s.at)
      BY ProcessorOfPiece DEF InPart
    <3>2. Stored(s, out)
      BY <1>2, <2>3, <3>1 DEF Delivered, Passed
    <3>3. PICK j \in 1..Len(files) : files[j].id = s.id /\ DataRecord(s) \in out[j].written
      BY <3>2 DEF Stored
    <3>4. j = i
      BY <2>1, <3>3, IdsDiffer
    <3> QED
      BY <2>1, <3>3, <3>4
  <2> QED
    BY <2>1, <2>2, <2>3
<1>6. out[i].written = DataOf(files[i].id) \/ (files[i].kind = "symlink" /\ InReadOnlyDirectory(i))
  BY <1>4, <1>5 DEF OutputOK
<1> QED
  BY <1>3, <1>4, <1>6 DEF Restored, OutputOK

\* Success means that everything is there: when part_processor_finalize has
\* succeeded for every part of an archive that was written whole, every file
\* has exactly its data, its size and its mode, every directory and symlink
\* was made, although the parts open, write, truncate and close the files they
\* share in any order.  The one condition is that build_part_map has seen the
\* files whose frames begin a part (the run restore_continuing shows what
\* happens otherwise).
THEOREM SuccessRestores ==
  RestoreSpec => [](~SomeFileAborted /\ NoDataMissed => SuccessMeansRestored)
<1>1. ArchiveInv /\ RestoreInv /\ DeliveryInv /\ PassedInv
        => (~SomeFileAborted /\ NoDataMissed => SuccessMeansRestored)
  <2> SUFFICES ASSUME ArchiveInv, RestoreInv, DeliveryInv, PassedInv, Good, NoDataMissed,
                      AllFinalized, NEW i \in DOMAIN files
               PROVE  Restored(i)
    BY DEF SuccessMeansRestored, Good
  <2>1. proc # <<>>
    <3>1. DOMAIN <<>> = {}
      OBVIOUS
    <3> QED
      BY <3>1 DEF AllFinalized, Processors
  <2>2. Restorable
    BY <2>1 DEF Restorable
  <2>3. i \in 1..Len(files)
    BY <2>2, EntriesParsed
  <2> QED
    BY <2>2, <2>3, AllRestored
<1> QED
  BY <1>1, PassedInvariant, PTL

(***************************************************************************)
(* build_part_map leaves the name and the extra field out of its estimate  *)
(* and assumes the small descriptor: it misses no file when the names are  *)
(* no longer than a Start-of-Part frame and a frame of data together.      *)
(***************************************************************************)
ShortNames == \A n \in NameLens, f \in FrameSizes : n < 25 + f

LEMMA ShortNamesSeen ==
  ASSUME Restorable, ShortNames, NEW p \in Processors
  PROVE  ~DataMissed(p)
<1> SUFFICES ASSUME DataMissed(p) PROVE FALSE
  OBVIOUS
<1>1. PICK s : s = FrameAtPosition(p * part_size)
  OBVIOUS
<1>2. s.kind = "SOP" /\ ContinuingFile(cd_files, p) = 0
  BY <1>1 DEF DataMissed, ContinuationMissed
<1>3. PICK f \in Pieces : f.kind = "Frame" /\ f.id = s.id /\ InPart(p, f.at)
  BY <1>1 DEF DataMissed
<1>4. PICK start \in Nat : start = p * part_size /\ p \in Nat
  BY PartEnds
<1>5. s \in Pieces /\ s.at = start
  <2>1. TypeOK
    BY DEF Restorable, ArchiveInv, AlignInv
  <2>2. s \in layout /\ s.at = start
    BY <1>1, <1>2, <1>4, <2>1, FrameSeen
  <2> QED
    BY <1>2, <2>2, PieceBelow
<1>6. s.len = 24 /\ f.len \in FrameSizes /\ f.at \in Nat /\ f.len \in Nat
  BY <1>2, <1>3, <1>5, ArchiveWritten, PieceTypes DEF Sized
<1>7. start + 24 <= f.at
  <2>1. ~(f.at < start + 24)
    <3>1. f # s /\ ~(f.at < s.at)
      <4>1. start <= f.at
        BY <1>3, <1>4 DEF InPart
      <4> QED
        BY <1>2, <1>3, <1>4, <1>5, <1>6, <4>1
    <3>2. ~(f.at < s.at + s.len)
      BY <1>5, <3>1, BeforeEnd
    <3> QED
      BY <1>5, <1>6, <3>2
  <2> QED
    BY <1>6, <2>1
<1>8. PICK h \in Pieces : h.kind = "LFH" /\ h.id = s.id /\ h.at <= s.at
  BY <1>2, <1>5, ArchiveWritten DEF Headed
<1>9. PICK i \in 1..Len(files) : files[i].id = h.id /\ files[i].local_header_offset = h.at
  BY <1>8, HeaderRecorded
<1>10. /\ files[i].name_len \in NameLens /\ files[i].name_len \in Nat
       /\ files[i].local_header_offset \in Nat /\ files[i].compressed_size \in Nat
  BY NamesNotEmpty, EntryTypes
<1>11. f.at + f.len <= files[i].local_header_offset + LfhLen(files[i].name_len)
                         + files[i].compressed_size
  <2>1. Located(files[i], layout)
    BY EntryByEntry DEF Restorable, ArchiveInv, LocateInv
  <2>2. f \in FramesOf(layout, files[i].id)
    BY <1>3, <1>8, <1>9, PieceTypes DEF FramesOf
  <2> QED
    BY <2>1, <2>2 DEF Located
<1>12. files[i].name_len < 25 + f.len
  BY <1>6, <1>10 DEF ShortNames
<1>13. files[i].local_header_offset < start
  <2>1. h # s /\ h.at \in Nat /\ s.len \in Nat \ {0}
    BY <1>2, <1>8, <1>5, PieceTypes
  <2>2. h.at # s.at
    <3> SUFFICES ASSUME h.at = s.at PROVE FALSE
      OBVIOUS
    <3>1. s.at <= h.at /\ h.at < s.at + s.len
      BY <1>4, <1>5, <2>1
    <3> QED
      BY <1>5, <2>1, <3>1, OnePiece
  <2> QED
    BY <1>4, <1>5, <1>8, <1>9, <2>1, <2>2
<1>14. PICK lho \in Nat, n \in Nat, csize \in Nat, fat \in Nat, flen \in Nat :
         /\ lho = files[i].local_header_offset /\ n = files[i].name_len
         /\ csize = files[i].compressed_size /\ fat = f.at /\ flen = f.len
  BY <1>6, <1>10
<1>15. lho + 30 + csize + 16 > start
  <2>1. fat + flen <= lho + (30 + n + 15) + csize
    BY <1>11, <1>14 DEF LfhLen
  <2>2. start + 24 <= fat /\ n < 25 + flen
    BY <1>7, <1>12, <1>14
  <2> QED
    BY <2>1, <2>2
<1>16. EstimatedEnd(cd_files[i]) > p * part_size /\ cd_files[i].local_header_offset < p * part_size
  <2>1. /\ cd_files[i].local_header_offset = lho /\ cd_files[i].compressed_size = csize
    BY <1>14, EntryParsed
  <2> QED
    BY <1>4, <1>13, <1>14, <1>15, <2>1 DEF EstimatedEnd, DATA_DESCRIPTOR_SIZE
<1> DEFINE spanning == {j \in DOMAIN cd_files :
                          /\ cd_files[j].local_header_offset < p * part_size
                          /\ EstimatedEnd(cd_files[j]) > p * part_size}
<1>17. DOMAIN cd_files = 1..Len(files) /\ Len(files) \in Nat
  BY EntriesParsed, ArchiveWritten
<1>18. i \in spanning
  BY <1>16, <1>17
<1>19. p # 0
  <2> SUFFICES ASSUME p = 0 PROVE FALSE
    OBVIOUS
  <2>1. p * part_size = 0
    BY PartEnds
  <2> QED
    BY <1>4, <1>10, <1>13, <2>1
<1>20. ContinuingFile(cd_files, p) = Min(spanning)
  BY <1>18, <1>19 DEF ContinuingFile
<1>21. Min(spanning) \in spanning
  <2>1. spanning \in SUBSET (1..Len(files)) /\ spanning # {}
    BY <1>17, <1>18
  <2>2. spanning \subseteq Nat
    BY <1>17
  <2> HIDE DEF spanning
  <2> QED
    BY <2>1, <2>2, MinOfNaturals, Zenon
<1> QED
  BY <1>2, <1>17, <1>20, <1>21

\* For names no longer than that, success of every part means that every file,
\* directory and symlink is there, whatever build_part_map's estimate leaves
\* out: no continuing file is missed that has data in the part.
THEOREM ShortNamesRestore ==
  RestoreSpec => [](ShortNames /\ ~SomeFileAborted => SuccessMeansRestored)
<1>1. ShortNames /\ ArchiveInv /\ RestoreInv
        => (~SomeFileAborted => NoDataMissed \/ SuccessMeansRestored)
  <2>1. ~NoneAtFieldLimit \/ proc = <<>> => SuccessMeansRestored
    BY DEF SuccessMeansRestored, AllFinalized, Processors
  <2> QED
    BY <2>1, ShortNamesSeen DEF NoDataMissed, Restorable, Good
<1> QED
  BY <1>1, PassedInvariant, SuccessRestores, PTL
=============================================================================
