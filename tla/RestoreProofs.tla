--------------------------- MODULE RestoreProofs ---------------------------
(***************************************************************************)
(* Theorems about the whole path of the data: what the downloader makes of *)
(* the directory BurstWriter wrote, and what the processors of the parts   *)
(* do with the bytes.                                                      *)
(***************************************************************************)
EXTENDS BurstRestore, WriterTilingProofs, CdFetchProofs

(***************************************************************************)
(* The writer inside the composition.                                      *)
(***************************************************************************)

\* Every step of the composition is a step of the writer or leaves it alone.
LEMMA WriterStepOrNot ==
  ASSUME [RestoreNext]_restoreVars
  PROVE  [Next]_vars
<1>1. CASE WriterSteps
  BY <1>1 DEF WriterSteps, Next
<1>2. CASE BeginRestore
  BY <1>2 DEF BeginRestore
<1>3. CASE RestoreSteps
  BY <1>3 DEF RestoreSteps
<1>4. CASE UNCHANGED restoreVars
  BY <1>4 DEF restoreVars
<1> QED
  BY <1>1, <1>2, <1>3, <1>4 DEF RestoreNext

\* So everything proved about the writer holds here, too.
LEMMA RestoreContainsWriter == RestoreSpec => Spec
<1>1. RestoreInit => Init
  BY DEF RestoreInit
<1>2. [RestoreNext]_restoreVars => [Next]_vars
  BY WriterStepOrNot
<1> QED
  BY <1>1, <1>2, PTL DEF RestoreSpec, Spec

(***************************************************************************)
(* The directory, written and parsed.                                      *)
(***************************************************************************)

\* Two sequences put together.
LEMMA Concatenation ==
  ASSUME NEW s \in Seq(Nat), NEW t \in Seq(Nat)
  PROVE  /\ s \o t \in Seq(Nat)
         /\ Len(s \o t) = Len(s) + Len(t)
         /\ \A i \in 1..Len(s) : (s \o t)[i] = s[i]
         /\ \A i \in 1..Len(t) : (s \o t)[Len(s) + i] = t[i]
  OBVIOUS

\* What a value leaves in the extra field.
LEMMA OverflowIs ==
  ASSUME NEW v \in Nat
  PROVE  /\ Overflow(v) \in Seq(Nat)
         /\ v > MAX32 => Len(Overflow(v)) = 1 /\ Overflow(v)[1] = v
         /\ ~(v > MAX32) => Len(Overflow(v)) = 0
         /\ v # MAX32 => Takes(Field32(v)) = Len(Overflow(v))
         /\ Takes(Field32(v)) \in Nat
<1>1. MAX32 \in Nat
  BY FormatAssumption
<1>2. CASE v > MAX32
  <2>1. Overflow(v) = <<v>> /\ Field32(v) = MAX32
    BY <1>2 DEF Overflow, Field32
  <2> QED
    BY <1>2, <2>1 DEF Takes
<1>3. CASE ~(v > MAX32)
  <2>1. Overflow(v) = <<>> /\ Field32(v) = v
    BY <1>3 DEF Overflow, Field32
  <2> QED
    BY <1>3, <2>1 DEF Takes
<1> QED
  BY <1>2, <1>3

\* A value that overflowed is found when the parser looks at its place, one
\* that did not when there is nothing left to take.
LEMMA FieldRestored ==
  ASSUME NEW v \in Nat, NEW k \in Nat, NEW extra,
         v > MAX32 => k < Len(extra) /\ extra[k + 1] = v,
         v = MAX32 => ~(k < Len(extra))
  PROVE  Zip64Value(Field32(v), k, extra) = v
<1>1. MAX32 \in Nat
  BY FormatAssumption
<1>2. CASE v > MAX32
  BY <1>1, <1>2 DEF Zip64Value, Field32
<1>3. CASE ~(v > MAX32)
  BY <1>1, <1>3 DEF Zip64Value, Field32
<1> QED
  BY <1>2, <1>3

\* The values of the extra field are where the parser looks for them, unless
\* one of the sizes is the marker itself.
LEMMA RoundTrip ==
  ASSUME NEW e \in FileEntries, ~AtFieldLimit(e)
  PROVE  /\ ParsedEntry(e).uncompressed_size = e.uncompressed_size
         /\ ParsedEntry(e).compressed_size = e.compressed_size
         /\ ParsedEntry(e).local_header_offset = e.local_header_offset
<1> DEFINE u == e.uncompressed_size
           c == e.compressed_size
           o == e.local_header_offset
           U == Overflow(u)
           C == Overflow(c)
           O == Overflow(o)
           extra == Zip64Extra(e)
<1>0. u \in Nat /\ c \in Nat /\ o \in Nat /\ u # MAX32 /\ c # MAX32
  BY DEF FileEntries, AtFieldLimit
<1>1. /\ U \in Seq(Nat) /\ C \in Seq(Nat) /\ O \in Seq(Nat)
      /\ Takes(Field32(u)) = Len(U) /\ Takes(Field32(c)) = Len(C)
      /\ u > MAX32 => Len(U) = 1 /\ U[1] = u
      /\ c > MAX32 => Len(C) = 1 /\ C[1] = c
      /\ o > MAX32 => Len(O) = 1 /\ O[1] = o
      /\ ~(o > MAX32) => Len(O) = 0
  BY <1>0, OverflowIs
<1>8. /\ ParsedEntry(e).uncompressed_size = Zip64Value(Field32(u), 0, extra)
      /\ ParsedEntry(e).compressed_size = Zip64Value(Field32(c), Takes(Field32(u)), extra)
      /\ ParsedEntry(e).local_header_offset =
           Zip64Value(Field32(o), Takes(Field32(u)) + Takes(Field32(c)), extra)
  BY DEF ParsedEntry
<1>9. extra = (U \o C) \o O
  BY DEF Zip64Extra
<1> HIDE DEF U, C, O, u, c, o, extra
<1>2. /\ U \o C \in Seq(Nat) /\ Len(U \o C) = Len(U) + Len(C)
      /\ \A i \in 1..Len(U) : (U \o C)[i] = U[i]
      /\ \A i \in 1..Len(C) : (U \o C)[Len(U) + i] = C[i]
  BY <1>1, Concatenation
<1>3. /\ Len(extra) = Len(U) + Len(C) + Len(O)
      /\ \A i \in 1..(Len(U) + Len(C)) : extra[i] = (U \o C)[i]
      /\ \A i \in 1..Len(O) : extra[Len(U) + Len(C) + i] = O[i]
  <2> DEFINE UC == U \o C
  <2> HIDE DEF UC
  <2>2. UC \in Seq(Nat) /\ extra = UC \o O /\ Len(UC) = Len(U) + Len(C)
    BY <1>2, <1>9 DEF UC
  <2>3. /\ Len(UC \o O) = Len(UC) + Len(O)
        /\ \A i \in 1..Len(UC) : (UC \o O)[i] = UC[i]
        /\ \A i \in 1..Len(O) : (UC \o O)[Len(UC) + i] = O[i]
    BY <1>1, <2>2, Concatenation
  <2> QED
    BY <2>2, <2>3 DEF UC
<1>4. Len(U) \in Nat /\ Len(C) \in Nat /\ Len(O) \in Nat /\ MAX32 \in Nat
  BY <1>1, FormatAssumption
<1>5. Zip64Value(Field32(u), 0, extra) = u
  <2>1. ASSUME u > MAX32 PROVE 0 < Len(extra) /\ extra[0 + 1] = u
    <3>1. Len(U) = 1 /\ U[1] = u /\ 0 + 1 = 1
      BY <1>1, <2>1
    <3>2. 1 \in 1..Len(U) /\ 1 \in 1..(Len(U) + Len(C)) /\ 0 < Len(extra)
      BY <1>3, <1>4, <3>1
    <3> QED
      BY <1>2, <1>3, <3>1, <3>2
  <2> QED
    BY <1>0, <2>1, FieldRestored
<1>6. Zip64Value(Field32(c), Len(U), extra) = c
  <2>1. ASSUME c > MAX32 PROVE Len(U) < Len(extra) /\ extra[Len(U) + 1] = c
    <3>1. Len(C) = 1 /\ C[1] = c
      BY <1>1, <2>1
    <3>2. 1 \in 1..Len(C) /\ Len(U) + 1 \in 1..(Len(U) + Len(C)) /\ Len(U) < Len(extra)
      BY <1>3, <1>4, <3>1
    <3> QED
      BY <1>2, <1>3, <3>1, <3>2
  <2> QED
    BY <1>0, <1>4, <2>1, FieldRestored
<1>7. Zip64Value(Field32(o), Len(U) + Len(C), extra) = o
  <2>1. ASSUME o > MAX32
        PROVE  Len(U) + Len(C) < Len(extra) /\ extra[Len(U) + Len(C) + 1] = o
    <3>1. Len(O) = 1 /\ O[1] = o
      BY <1>1, <2>1
    <3>2. 1 \in 1..Len(O) /\ Len(U) + Len(C) < Len(extra)
      BY <1>3, <1>4, <3>1
    <3> QED
      BY <1>3, <3>1, <3>2
  <2>2. o = MAX32 => ~(Len(U) + Len(C) < Len(extra))
    BY <1>1, <1>3, <1>4
  <2>3. Len(U) + Len(C) \in Nat
    BY <1>4
  <2> QED
    BY <1>0, <2>1, <2>2, <2>3, FieldRestored
<1> QED
  BY <1>1, <1>5, <1>6, <1>7, <1>8 DEF u, c, o

\* A parsed entry, whatever its sizes: its fields are numbers.
ParsedEntries ==
  [id : Nat, kind : EntryKinds, name_len : Nat, uncompressed_size : Nat,
   compressed_size : Nat, local_header_offset : Nat,
   uses_zip64_descriptor : BOOLEAN, part_index : Nat]

LEMMA DescriptorAsWritten ==
  ASSUME NEW e \in FileEntries, ~AtFieldLimit(e)
  PROVE  ParsedDescriptorSize(ParsedEntry(e)) =
           DescriptorSize(e.compressed_size, e.uncompressed_size)
<1> DEFINE u == e.uncompressed_size
           c == e.compressed_size
           p == ParsedEntry(e)
<1>1. u \in Nat /\ c \in Nat /\ u # MAX32 /\ c # MAX32 /\ MAX32 \in Nat
  BY FormatAssumption DEF FileEntries, AtFieldLimit
<1>2. p.uses_zip64_descriptor <=> Field32(c) = MAX32 \/ Field32(u) = MAX32
  BY DEF ParsedEntry
<1> HIDE DEF p, u, c
<1>3. p.uses_zip64_descriptor <=> c > MAX32 \/ u > MAX32
  BY <1>1, <1>2 DEF Field32
<1>4. ParsedDescriptorSize(p) = DescriptorSize(c, u)
  BY <1>3 DEF ParsedDescriptorSize, DescriptorSize
<1> QED
  BY <1>4 DEF p, u, c

LEMMA ParsedEntryType ==
  ASSUME NEW e \in FileEntries
  PROVE  /\ ParsedEntry(e) \in ParsedEntries
         /\ ParsedEntry(e).id = e.id
         /\ ParsedEntry(e).kind = e.kind
         /\ ParsedEntry(e).name_len = e.name_len
         /\ ParsedEntry(e).part_index = ParsedEntry(e).local_header_offset \div part_size
<1> DEFINE u == e.uncompressed_size
           c == e.compressed_size
           o == e.local_header_offset
           extra == Zip64Extra(e)
<1>1. /\ u \in Nat /\ c \in Nat /\ o \in Nat /\ e.id \in Nat /\ e.kind \in EntryKinds
      /\ e.name_len \in Nat /\ MAX32 \in Nat
  BY FormatAssumption DEF FileEntries
<1>2. extra \in Seq(Nat)
  <2>1. Overflow(u) \in Seq(Nat) /\ Overflow(c) \in Seq(Nat) /\ Overflow(o) \in Seq(Nat)
    BY <1>1, OverflowIs
  <2>2. Overflow(u) \o Overflow(c) \in Seq(Nat)
    BY <2>1, Concatenation
  <2> HIDE DEF u, c, o
  <2>3. (Overflow(u) \o Overflow(c)) \o Overflow(o) \in Seq(Nat)
    BY <2>1, <2>2, Concatenation
  <2> QED
    BY <2>3 DEF Zip64Extra, u, c, o
<1>3. ASSUME NEW v \in Nat, NEW k \in Nat
      PROVE  Zip64Value(Field32(v), k, extra) \in Nat
  <2>1. Field32(v) \in Nat
    BY <1>1 DEF Field32
  <2>2. k < Len(extra) => extra[k + 1] \in Nat
    BY <1>2
  <2> QED
    BY <2>1, <2>2 DEF Zip64Value
<1> HIDE DEF extra
<1>4. Takes(Field32(u)) \in Nat /\ Takes(Field32(u)) + Takes(Field32(c)) \in Nat
  BY DEF Takes
<1> DEFINE us == Zip64Value(Field32(u), 0, extra)
           cs == Zip64Value(Field32(c), Takes(Field32(u)), extra)
           off == Zip64Value(Field32(o), Takes(Field32(u)) + Takes(Field32(c)), extra)
           wide == Field32(c) = MAX32 \/ Field32(u) = MAX32
<1>5. us \in Nat /\ cs \in Nat /\ off \in Nat
  BY <1>1, <1>3, <1>4
<1>6. off \div part_size \in Nat
  BY <1>5, PartBrackets
<1>7. wide \in BOOLEAN
  BY Zenon
<1>8. ParsedEntry(e) =
        [id |-> e.id, kind |-> e.kind, name_len |-> e.name_len,
         uncompressed_size |-> us, compressed_size |-> cs, local_header_offset |-> off,
         uses_zip64_descriptor |-> wide, part_index |-> off \div part_size]
  BY DEF ParsedEntry, extra
<1> HIDE DEF us, cs, off, wide, u, c, o
<1>9. ParsedEntry(e) \in ParsedEntries
  BY <1>1, <1>5, <1>6, <1>7, <1>8 DEF ParsedEntries
<1> QED
  BY <1>8, <1>9

(***************************************************************************)
(* The entries of a part, in order: for every index below their number     *)
(* there is exactly one entry with so many entries before it.              *)
(***************************************************************************)
Directory(parsed, n) ==
  /\ n \in Nat
  /\ DOMAIN parsed = 1..n
  /\ \A i \in 1..n : parsed[i].local_header_offset \in Nat

EntriesBefore(parsed, p, i) == {j \in EntriesOf(parsed, p) : SortedBefore(parsed, j, i)}

\* The entries of a part are finitely many.
LEMMA EntriesFinite ==
  ASSUME NEW n, NEW parsed, Directory(parsed, n), NEW p
  PROVE  /\ EntriesOf(parsed, p) \subseteq 1..n
         /\ IsFiniteSet(EntriesOf(parsed, p))
         /\ Cardinality(EntriesOf(parsed, p)) \in Nat
<1>1. EntriesOf(parsed, p) \subseteq 1..n
  BY DEF EntriesOf, Directory
<1>2. IsFiniteSet(1..n)
  BY FS_Interval DEF Directory
<1>3. IsFiniteSet(EntriesOf(parsed, p))
  BY <1>1, <1>2, FS_Subset
<1> QED
  BY <1>1, <1>3, FS_CardinalityType

\* An entry further on has more entries before it.
LEMMA MoreBefore ==
  ASSUME NEW n, NEW parsed, Directory(parsed, n), NEW p,
         NEW i \in EntriesOf(parsed, p), NEW j \in EntriesOf(parsed, p),
         SortedBefore(parsed, i, j)
  PROVE  Cardinality(EntriesBefore(parsed, p, i)) < Cardinality(EntriesBefore(parsed, p, j))
<1> DEFINE S == EntriesOf(parsed, p)
           A == EntriesBefore(parsed, p, i)
           B == EntriesBefore(parsed, p, j)
<1>1. S \subseteq 1..n /\ IsFiniteSet(S) /\ n \in Nat
  BY EntriesFinite DEF Directory
<1>2. \A k \in S : k \in Nat /\ parsed[k].local_header_offset \in Nat
  BY <1>1 DEF Directory
<1>3. A \subseteq S /\ B \subseteq S /\ i \in B /\ i \notin A
  BY <1>2 DEF EntriesBefore, SortedBefore
<1>4. A \subseteq B
  <2> SUFFICES ASSUME NEW k \in S, SortedBefore(parsed, k, i)
               PROVE  SortedBefore(parsed, k, j)
    BY DEF EntriesBefore
  <2> QED
    BY <1>2 DEF SortedBefore
<1>5. IsFiniteSet(A) /\ IsFiniteSet(B)
  BY <1>1, <1>3, FS_Subset
<1> HIDE DEF A, B
<1>6. Cardinality(A \cup {i}) = Cardinality(A) + 1 /\ IsFiniteSet(A \cup {i})
  BY <1>3, <1>5, FS_AddElement
<1>7. A \cup {i} \subseteq B
  BY <1>3, <1>4
<1>8. Cardinality(A \cup {i}) <= Cardinality(B)
  BY <1>5, <1>7, FS_Subset
<1>9. Cardinality(A) \in Nat /\ Cardinality(B) \in Nat
  BY <1>5, FS_CardinalityType
<1> QED
  BY <1>6, <1>8, <1>9 DEF A, B

\* EntryAt is defined for every index handle_local_header asks for.
LEMMA EntryAtExists ==
  ASSUME NEW n, NEW parsed, Directory(parsed, n), NEW p,
         NEW k \in Nat, k < Cardinality(EntriesOf(parsed, p))
  PROVE  /\ EntryAt(parsed, p, k) \in EntriesOf(parsed, p)
         /\ Cardinality(EntriesBefore(parsed, p, EntryAt(parsed, p, k))) = k
<1> DEFINE S == EntriesOf(parsed, p)
           B(i) == EntriesBefore(parsed, p, i)
           rank == [i \in S |-> Cardinality(B(i))]
           T == 0..(Cardinality(S) - 1)
<1>1. S \subseteq 1..n /\ IsFiniteSet(S) /\ Cardinality(S) \in Nat /\ n \in Nat
  BY EntriesFinite DEF Directory
<1>2. ASSUME NEW i \in S PROVE Cardinality(B(i)) \in T
  <2>1. B(i) \in SUBSET (S \ {i})
    <3>1. i \in 1..n /\ parsed[i].local_header_offset \in Nat
      BY <1>1 DEF Directory
    <3> QED
      BY <3>1 DEF EntriesBefore, SortedBefore
  <2>2. IsFiniteSet(S \ {i}) /\ Cardinality(S \ {i}) = Cardinality(S) - 1
    BY <1>1, FS_RemoveElement
  <2>3. Cardinality(B(i)) <= Cardinality(S \ {i}) /\ IsFiniteSet(B(i))
    BY <2>1, <2>2, FS_Subset
  <2>4. Cardinality(B(i)) \in Nat
    BY <2>3, FS_CardinalityType
  <2> HIDE DEF B, S
  <2> QED
    BY <1>1, <2>2, <2>3, <2>4
<1>3. ASSUME NEW i \in S, NEW j \in S, i # j
      PROVE  Cardinality(B(i)) # Cardinality(B(j))
  <2>1. SortedBefore(parsed, i, j) \/ SortedBefore(parsed, j, i)
    <3>1. /\ i \in 1..n /\ parsed[i].local_header_offset \in Nat
          /\ j \in 1..n /\ parsed[j].local_header_offset \in Nat
      BY <1>1 DEF Directory
    <3> QED
      BY <1>1, <1>3, <3>1 DEF SortedBefore
  <2>2. Cardinality(B(i)) < Cardinality(B(j)) \/ Cardinality(B(j)) < Cardinality(B(i))
    BY <2>1, MoreBefore
  <2>3. Cardinality(B(i)) \in Int /\ Cardinality(B(j)) \in Int
    BY <1>2
  <2> HIDE DEF B
  <2> QED
    BY <2>2, <2>3
<1> HIDE DEF B, S
<1>4. rank \in Injection(S, T)
  <2>1. rank \in [S -> T]
    BY <1>2
  <2>2. \A i, j \in S : rank[i] = rank[j] => i = j
    BY <1>3
  <2> QED
    BY <2>1, <2>2 DEF Injection, IsInjective
<1>5. IsFiniteSet(T) /\ Cardinality(T) = Cardinality(S)
  <2> DEFINE m == Cardinality(S)
  <2>1. m \in Nat
    BY <1>1
  <2> HIDE DEF m
  <2>2. IsFiniteSet(0..(m - 1)) /\ Cardinality(0..(m - 1)) = m
    BY <2>1, FS_Interval
  <2> QED
    BY <2>2 DEF m
<1>6. rank \in Surjection(S, T)
  <2> HIDE DEF rank, T
  <2> QED
    BY <1>4, <1>5, FS_Injection
<1>7. k \in T
  BY <1>1 DEF S
<1>8. PICK i \in S : rank[i] = k
  BY <1>6, <1>7 DEF Surjection
<1>9. k = Cardinality(B(i))
  BY <1>8
<1>10. EntryAt(parsed, p, k) = CHOOSE x \in S : k = Cardinality(B(x))
  BY Zenon DEF EntryAt, S, B, EntriesBefore
<1>11. EntryAt(parsed, p, k) \in S /\ k = Cardinality(B(EntryAt(parsed, p, k)))
  BY <1>9, <1>10, Zenon
<1> QED
  BY <1>11 DEF S, B

(***************************************************************************)
(* The first inductive invariant of the restore: the directory is the      *)
(* parsed one, and every processor is within its part.  A processor that   *)
(* reads a symlink target has not read more than the target's size, or the *)
(* difference it computes next would be negative; one that expects to      *)
(* continue a file has one to continue.                                    *)
(***************************************************************************)
Errors == {"none", "INVALID_FRAME", "IO", "BTRFS_WRITE", "UNEXPECTED_EOF"}

ProcessorStates ==
  [state : States, at : Nat, received : Nat, next_entry_idx : Nat, file : Nat,
   uncompressed_offset : Nat, symlink_bytes_read : Nat, symlink_source : Nat,
   error : Errors, finalized : BOOLEAN]

HasFile(q) == q.state \in {"PROCESSING_FRAMES", "READING_SYMLINK"}

SymlinkRead(q) ==
  q.symlink_bytes_read <=
    IF q.state = "READING_SYMLINK" THEN cd_files[q.file].uncompressed_size ELSE 0

ProcessorOK(q, p) ==
  /\ q \in ProcessorStates
  /\ p * part_size <= q.at /\ q.at <= q.received /\ q.received <= PartDataEnd(p)
  /\ q.next_entry_idx <= Cardinality(EntriesOf(cd_files, p))
  /\ q.file \in 0..Len(cd_files)
  /\ q.state # "ERROR" => (q.file # 0 <=> HasFile(q))
  /\ q.state = "CONTINUING_FILE" => ContinuingFile(cd_files, p) # 0
  /\ SymlinkRead(q)

DirectoryParsed ==
  \/ proc = <<>> /\ cd_files = <<>> /\ out = <<>>
  \/ /\ phase = "done" /\ pos > 0
     /\ cd_files = [i \in DOMAIN files |-> ParsedEntry(files[i])]
     /\ DOMAIN proc = 0..(NumParts(pos) - 1)

RestoreInv == DirectoryParsed /\ \A p \in Processors : ProcessorOK(proc[p], p)

\* What the restore knows while it runs: the directory is a sequence of
\* parsed entries, one for each entry written.
LEMMA WhileRestoring ==
  ASSUME AlignInv, RestoreInv, NEW p \in Processors
  PROVE  /\ phase = "done" /\ pos \in Nat \ {0} /\ p \in 0..(NumParts(pos) - 1) /\ p \in Nat
         /\ cd_files \in Seq(ParsedEntries) /\ Len(cd_files) = Len(files)
         /\ Directory(cd_files, Len(cd_files))
         /\ \A i \in 1..Len(cd_files) : /\ cd_files[i] \in ParsedEntries
                                        /\ cd_files[i] = ParsedEntry(files[i])
         /\ ProcessorOK(proc[p], p)
<1>1. proc # <<>>
  BY DEF Processors
<1>2. /\ phase = "done" /\ pos > 0
      /\ cd_files = [i \in DOMAIN files |-> ParsedEntry(files[i])]
      /\ DOMAIN proc = 0..(NumParts(pos) - 1)
  BY <1>1 DEF RestoreInv, DirectoryParsed
<1>3. pos \in Nat \ {0} /\ files \in Seq(FileEntries)
  BY <1>2 DEF AlignInv, TypeOK
<1>4. DOMAIN files = 1..Len(files) /\ Len(files) \in Nat
      /\ \A i \in 1..Len(files) : files[i] \in FileEntries
  BY <1>3
<1>5. \A i \in 1..Len(files) : ParsedEntry(files[i]) \in ParsedEntries
  BY <1>4, ParsedEntryType
<1>6. /\ cd_files \in Seq(ParsedEntries) /\ Len(cd_files) = Len(files)
      /\ \A i \in 1..Len(files) : cd_files[i] = ParsedEntry(files[i])
  BY <1>2, <1>4, <1>5
<1>7. Directory(cd_files, Len(cd_files))
  <2>1. DOMAIN cd_files = 1..Len(cd_files) /\ Len(cd_files) \in Nat
    BY <1>6
  <2>2. \A e \in ParsedEntries : e.local_header_offset \in Nat
    BY DEF ParsedEntries
  <2>3. \A i \in 1..Len(cd_files) : cd_files[i] \in ParsedEntries
    BY <1>5, <1>6
  <2> QED
    BY <2>1, <2>2, <2>3 DEF Directory
<1>8. p \in 0..(NumParts(pos) - 1) /\ p \in Nat
  BY <1>2 DEF Processors
<1> QED
  BY <1>2, <1>3, <1>5, <1>6, <1>7, <1>8 DEF RestoreInv

\* Every part has data to deliver.
LEMMA PartHasData ==
  ASSUME TypeOK, pos \in Nat \ {0}, NEW p \in 0..(NumParts(pos) - 1)
  PROVE  PartDataEnd(p) \in Nat /\ p * part_size < PartDataEnd(p)
<1>1. /\ p \in Nat /\ p * part_size \in Nat /\ central_dir_start \in Nat
      /\ (p + 1) * part_size = p * part_size + part_size /\ part_size \in Nat \ {0}
  <2>1. NumParts(pos) \in Nat
    BY NumPartsCover
  <2>2. p \in Nat
    BY <2>1
  <2> QED
    BY <2>2, PartStart, CdFetchAssumption DEF TypeOK
<1>2. CASE p \in PartsInMemory(pos, central_dir_start)
  <2>1. HasBody(p, central_dir_start)
    BY <1>2 DEF PartsInMemory, CoveredParts
  <2>2. PartBodyEnd(p, central_dir_start) \in Nat /\ p * part_size < central_dir_start
    BY <1>1, <2>1, BodyEnd
  <2>3. PartDataEnd(p) = PartBodyEnd(p, central_dir_start)
    BY <1>2 DEF PartDataEnd
  <2> QED
    BY <2>1, <2>2, <2>3 DEF HasBody
<1>3. CASE p \notin PartsInMemory(pos, central_dir_start)
  <2>1. p * part_size < pos
    <3> DEFINE m == NumParts(pos)
    <3>1. m \in Nat \ {0} /\ (m - 1) * part_size < pos /\ (m - 1) \in Nat /\ p <= m - 1
      BY NumPartsCover
    <3>2. (m - 1) * part_size \in Nat
      BY <3>1, PartStart
    <3>3. p = m - 1 \/ p < m - 1
      BY <1>1, <3>1
    <3> HIDE DEF m
    <3>4. p < m - 1 => p * part_size + part_size <= (m - 1) * part_size
      BY <1>1, <3>1, PartsApart
    <3> QED
      BY <1>1, <3>1, <3>2, <3>3, <3>4
  <2> DEFINE a == (p + 1) * part_size
  <2>2. a \in Int /\ pos \in Int /\ p * part_size < a /\ a \in Nat
    BY <1>1
  <2>3. PartDataEnd(p) = Min({a, pos})
    BY <1>3 DEF PartDataEnd
  <2> HIDE DEF a
  <2>4. Min({a, pos}) = IF a <= pos THEN a ELSE pos
    BY <2>2, MinMaxOfTwo, Zenon
  <2> QED
    BY <1>1, <2>1, <2>2, <2>3, <2>4
<1> QED
  BY <1>2, <1>3

\* What parse_next_frame sees at a position.
LEMMA FrameSeen ==
  ASSUME TypeOK, NEW at \in Nat
  PROVE  /\ FrameAtPosition(at).len \in Nat
         /\ FrameAtPosition(at).id \in Nat
         /\ FrameAtPosition(at).uoff \in Nat
         /\ FrameAtPosition(at).ulen \in Nat
         /\ FrameAtPosition(at).at = at
         /\ \/ FrameAtPosition(at) \in layout /\ FrameAtPosition(at).kind \in Recognized
            \/ /\ FrameAtPosition(at).kind = "Unknown"
               /\ \A s \in layout : s.at = at => s.kind \notin Recognized
<1> DEFINE here == {s \in layout : s.at = at /\ s.kind \in Recognized}
<1>1. CASE here = {}
  <2>1. FrameAtPosition(at) = Unknown(at)
    BY <1>1 DEF FrameAtPosition
  <2> QED
    BY <1>1, <2>1 DEF Unknown, Structure
<1>2. CASE here # {}
  <2>1. FrameAtPosition(at) \in here
    BY <1>2, Zenon DEF FrameAtPosition
  <2> QED
    BY <2>1 DEF TypeOK, Structures
<1> QED
  BY <1>1, <1>2

\* A step of one processor leaves the others as they are.
LEMMA OneProcessorSteps ==
  ASSUME RestoreInv, NEW p \in Processors, NEW q, Becomes(p, q), ProcessorOK(q, p),
         UNCHANGED <<vars, cd_files>>
  PROVE  RestoreInv'
<1>1. /\ proc' = [proc EXCEPT ![p] = q] /\ DOMAIN proc' = DOMAIN proc
      /\ phase' = phase /\ pos' = pos /\ files' = files /\ cd_files' = cd_files
      /\ central_dir_start' = central_dir_start
  BY DEF Becomes, vars, finalizeVars
<1>2. \A r \in DOMAIN proc : ProcessorOK(proc'[r], r)
  BY <1>1 DEF RestoreInv, Processors
<1>3. \A r, x : ProcessorOK(x, r)' <=> ProcessorOK(x, r)
  BY <1>1 DEF ProcessorOK, SymlinkRead, HasFile, PartDataEnd
<1>4. \A r \in DOMAIN proc' : ProcessorOK(proc[r], r)'
  BY <1>1, <1>2, <1>3
<1>5. DirectoryParsed'
  <2>1. proc # <<>>
    BY DEF Processors
  <2> QED
    BY <1>1, <2>1 DEF RestoreInv, DirectoryParsed
<1> QED
  BY <1>4, <1>5 DEF RestoreInv, Processors

(***************************************************************************)
(* The handlers keep a processor in order.                                 *)
(***************************************************************************)

\* A processor that gives up, from any state but that of reading a target.
LEMMA FailureOK ==
  ASSUME NEW q, NEW p, ProcessorOK(q, p), q.state # "READING_SYMLINK", NEW code \in Errors
  PROVE  ProcessorOK([q EXCEPT !.state = "ERROR", !.error = code], p)
<1> DEFINE n == [q EXCEPT !.state = "ERROR", !.error = code]
<1>1. n \in ProcessorStates
  BY DEF ProcessorOK, ProcessorStates, States
<1>2. /\ n.at = q.at /\ n.received = q.received /\ n.next_entry_idx = q.next_entry_idx
      /\ n.file = q.file /\ n.state = "ERROR" /\ n.symlink_bytes_read = q.symlink_bytes_read
  BY DEF ProcessorOK, ProcessorStates
<1> HIDE DEF n
<1>3. ProcessorOK(n, p)
  BY <1>1, <1>2 DEF ProcessorOK, SymlinkRead
<1> QED
  BY <1>3 DEF n

\* A processor that consumes bytes it has, goes to another state or takes a
\* file: what has to be checked about the new record.
LEMMA AdvanceOK ==
  ASSUME NEW q, NEW p, ProcessorOK(q, p), NEW n \in ProcessorStates,
         q.at <= n.at, n.at <= q.received, n.received = q.received,
         n.next_entry_idx <= Cardinality(EntriesOf(cd_files, p)),
         n.file \in 0..Len(cd_files),
         n.file # 0 <=> HasFile(n),
         n.state # "CONTINUING_FILE",
         SymlinkRead(n), NEW start \in Nat, start = p * part_size
  PROVE  ProcessorOK(n, p)
<1>1. start <= q.at /\ q.at \in Nat /\ n.at \in Nat
  BY DEF ProcessorOK, ProcessorStates
<1>2. start <= n.at
  BY <1>1
<1> QED
  BY <1>2 DEF ProcessorOK

\* What the handlers may rely on.
LEMMA HandlerFacts ==
  ASSUME AlignInv, RestoreInv, NEW p \in Processors, NEW q, q = proc[p],
         NEW s, s = FrameAtPosition(q.at)
  PROVE  /\ TypeOK /\ ProcessorOK(q, p) /\ q \in ProcessorStates
         /\ p * part_size \in Nat
         /\ q.at \in Nat /\ q.received \in Nat /\ q.at <= q.received
         /\ q.next_entry_idx \in Nat /\ q.file \in 0..Len(cd_files)
         /\ q.uncompressed_offset \in Nat /\ q.symlink_bytes_read \in Nat
         /\ Len(cd_files) \in Nat
         /\ Cardinality(EntriesOf(cd_files, p)) \in Nat
         /\ s.len \in Nat /\ s.uoff \in Nat /\ s.ulen \in Nat /\ s.id \in Nat
         /\ q.state # "READING_SYMLINK" => q.symlink_bytes_read = 0
<1>1. /\ ProcessorOK(q, p) /\ p \in Nat /\ Directory(cd_files, Len(cd_files))
      /\ cd_files \in Seq(ParsedEntries)
  BY WhileRestoring
<1>2. TypeOK
  BY DEF AlignInv
<1>3. /\ q \in ProcessorStates /\ q.at \in Nat /\ q.received \in Nat /\ q.at <= q.received
      /\ q.next_entry_idx \in Nat /\ q.file \in 0..Len(cd_files)
      /\ q.uncompressed_offset \in Nat /\ q.symlink_bytes_read \in Nat
  BY <1>1 DEF ProcessorOK, ProcessorStates
<1>4. s.len \in Nat /\ s.uoff \in Nat /\ s.ulen \in Nat /\ s.id \in Nat
  BY <1>2, <1>3, FrameSeen
<1>5. q.state # "READING_SYMLINK" => q.symlink_bytes_read = 0
  BY <1>1, <1>3 DEF ProcessorOK, SymlinkRead
<1>6. Len(cd_files) \in Nat /\ Cardinality(EntriesOf(cd_files, p)) \in Nat
  BY <1>1, EntriesFinite
<1> QED
  BY <1>1, <1>2, <1>3, <1>4, <1>5, <1>6, PartStart

\* The file that continues into a part is one of the directory.
LEMMA ContinuingFileType ==
  ASSUME NEW n, NEW parsed, Directory(parsed, n), NEW p
  PROVE  ContinuingFile(parsed, p) \in 0..n
<1> DEFINE spanning == {i \in DOMAIN parsed : /\ parsed[i].local_header_offset < p * part_size
                                              /\ EstimatedEnd(parsed[i]) > p * part_size}
<1>1. spanning \subseteq 1..n /\ n \in Nat
  BY DEF Directory
<1>2. ContinuingFile(parsed, p) = IF p = 0 \/ spanning = {} THEN 0 ELSE Min(spanning)
  BY DEF ContinuingFile
<1> HIDE DEF spanning
<1>3. spanning # {} => Min(spanning) \in spanning
  <2>1. spanning \subseteq Nat
    BY <1>1
  <2> QED
    BY <2>1, MinOfNaturals, Zenon
<1>4. spanning # {} => Min(spanning) \in 0..n
  <2>1. \A i \in 1..n : i \in 0..n
    BY <1>1
  <2> QED
    BY <1>1, <1>3, <2>1, Zenon
<1>5. 0 \in 0..n
  BY <1>1
<1> QED
  BY <1>2, <1>4, <1>5, Zenon

\* open_output_file, whichever handler calls it.
LEMMA OpensOK ==
  ASSUME AlignInv, RestoreInv, NEW p \in Processors, NEW q, q = proc[p],
         NEW s, s = FrameAtPosition(q.at), s.len <= q.received - q.at,
         q.state # "READING_SYMLINK",
         NEW i \in 1..Len(cd_files), NEW offset \in Nat,
         NEW state \in {"PROCESSING_FRAMES", "READING_SYMLINK"},
         NEW k \in Nat, k <= Cardinality(EntriesOf(cd_files, p)),
         Opens(p, s, i, offset, state, k)
  PROVE  \E n : Becomes(p, n) /\ ProcessorOK(n, p)
<1>1. /\ TypeOK /\ ProcessorOK(q, p) /\ q \in ProcessorStates /\ p * part_size \in Nat
      /\ q.at \in Nat /\ q.received \in Nat /\ q.at <= q.received
      /\ Len(cd_files) \in Nat /\ s.len \in Nat /\ q.symlink_bytes_read = 0
  BY HandlerFacts
<1>2. CASE CanOpen(i)
  <2> DEFINE n == [Past(p, s) EXCEPT !.file = i, !.uncompressed_offset = offset,
                                     !.state = state, !.next_entry_idx = k]
  <2>1. Becomes(p, n)
    BY <1>2, Zenon DEF Opens
  <2>2. q.at + s.len \in Nat /\ i \in Nat /\ q.at + s.len <= q.received /\ q.at <= q.at + s.len
    BY <1>1
  <2>3. n \in ProcessorStates
    BY <1>1, <2>2 DEF Past, ProcessorStates, States
  <2>4. /\ n.at = q.at + s.len /\ n.received = q.received /\ n.file = i /\ n.state = state
        /\ n.next_entry_idx = k /\ n.symlink_bytes_read = 0
    BY <1>1 DEF Past, ProcessorStates
  <2> HIDE DEF n
  <2>5. SymlinkRead(n)
    <3>1. cd_files[i].uncompressed_size \in Nat
      BY WhileRestoring DEF ParsedEntries
    <3> QED
      BY <2>4, <3>1 DEF SymlinkRead
  <2>6. n.file \in 0..Len(cd_files) /\ n.file # 0
    BY <1>1, <2>4
  <2>7. ProcessorOK(n, p)
    BY <1>1, <2>2, <2>3, <2>4, <2>5, <2>6, AdvanceOK DEF HasFile
  <2> QED
    BY <2>1, <2>7
<1>3. CASE ~CanOpen(i)
  <2>1. Fails(p, "IO")
    BY <1>3, Zenon DEF Opens
  <2> QED
    BY <1>1, <2>1, FailureOK DEF Fails, Errors
<1> QED
  BY <1>2, <1>3

\* The frame is complete, except where its signature is enough.
LEMMA FrameComplete ==
  ASSUME AlignInv, RestoreInv, NEW p \in Processors, NEW q, q = proc[p],
         NEW s, s = FrameAtPosition(q.at), Ready(p, s),
         q.state # "READING_SYMLINK", ~(q.state = "EXPECT_LOCAL_HEADER" /\ NoEntryLeft(p)),
         s.kind \notin {"DD", "CDFH", "Unknown"},
         s.kind \in {"LFH", "PadLFH"} => q.state = "EXPECT_LOCAL_HEADER"
  PROVE  s.len <= q.received - q.at
<1>1. q.received - q.at >= BytesNeeded(s, q.state)
  BY DEF Ready
<1>2. BytesNeeded(s, q.state) = s.len
  BY DEF BytesNeeded
<1>3. q.received \in Nat /\ q.at \in Nat /\ s.len \in Nat
  BY HandlerFacts
<1> QED
  BY <1>1, <1>2, <1>3

\* The continuing file, and the part's next entry.
LEMMA OpeningOK ==
  ASSUME AlignInv, RestoreInv, NEW p \in Processors, NEW s, s = FrameAtPosition(proc[p].at),
         Ready(p, s), ContinueFile(p, s) \/ OpenEntry(p, s)
  PROVE  \E n : Becomes(p, n) /\ ProcessorOK(n, p)
<1> DEFINE q == proc[p]
           E == EntriesOf(cd_files, p)
<1>1. /\ ProcessorOK(q, p) /\ q.next_entry_idx \in Nat /\ Cardinality(E) \in Nat
      /\ s.uoff \in Nat /\ Len(cd_files) \in Nat
  BY HandlerFacts
<1>2. Directory(cd_files, Len(cd_files))
  BY WhileRestoring
<1>3. CASE ContinueFile(p, s)
  <2> DEFINE i == ContinuingFile(cd_files, p)
  <2>1. /\ q.state = "CONTINUING_FILE" /\ s.kind = "SOP"
        /\ Opens(p, s, i, s.uoff, "PROCESSING_FRAMES", q.next_entry_idx)
    BY <1>3 DEF ContinueFile, Handles, SopOffset
  <2>2. i \in 1..Len(cd_files)
    <3>1. i \in 0..Len(cd_files) /\ i # 0
      BY <1>1, <1>2, <2>1, ContinuingFileType DEF ProcessorOK
    <3> HIDE DEF i
    <3> QED
      BY <1>1, <3>1
  <2>3. q.next_entry_idx <= Cardinality(E)
    BY <1>1 DEF ProcessorOK
  <2>4. s.len <= q.received - q.at
    BY <2>1, FrameComplete
  <2> HIDE DEF i
  <2> QED
    BY <1>1, <2>1, <2>2, <2>3, <2>4, OpensOK
<1>4. CASE OpenEntry(p, s)
  <2> DEFINE i == EntryAt(cd_files, p, q.next_entry_idx)
             state == IF cd_files[i].kind = "symlink" THEN "READING_SYMLINK"
                      ELSE "PROCESSING_FRAMES"
  <2>1. /\ q.state = "EXPECT_LOCAL_HEADER" /\ s.kind = "LFH" /\ ~NoEntryLeft(p)
        /\ Opens(p, s, i, 0, state, q.next_entry_idx + 1)
    BY <1>4 DEF OpenEntry, Handles
  <2>2. q.next_entry_idx < Cardinality(E)
    BY <1>1, <2>1 DEF NoEntryLeft
  <2>3. i \in 1..Len(cd_files)
    BY <1>1, <1>2, <2>2, EntryAtExists, EntriesFinite
  <2>4. s.len <= q.received - q.at
    BY <2>1, FrameComplete
  <2>5. state \in {"PROCESSING_FRAMES", "READING_SYMLINK"}
    OBVIOUS
  <2>6. q.next_entry_idx + 1 \in Nat /\ q.next_entry_idx + 1 <= Cardinality(E)
    BY <1>1, <2>2
  <2> HIDE DEF i, state
  <2> QED
    BY <1>1, <2>1, <2>3, <2>4, <2>5, <2>6, OpensOK
<1> QED
  BY <1>3, <1>4

\* Padding, data and Start-of-Part frames are consumed whole.
LEMMA ConsumingOK ==
  ASSUME AlignInv, RestoreInv, NEW p \in Processors, NEW s, s = FrameAtPosition(proc[p].at),
         Ready(p, s), SkipPadding(p, s) \/ WriteData(p, s) \/ StartOfPartInFile(p, s)
  PROVE  \E n : Becomes(p, n) /\ ProcessorOK(n, p)
<1> DEFINE q == proc[p]
<1>1. /\ ProcessorOK(q, p) /\ q \in ProcessorStates /\ p * part_size \in Nat
      /\ q.at \in Nat /\ q.received \in Nat /\ q.uncompressed_offset \in Nat
      /\ s.len \in Nat /\ s.uoff \in Nat /\ s.ulen \in Nat
      /\ q.state # "READING_SYMLINK" => q.symlink_bytes_read = 0
  BY HandlerFacts
<1>2. /\ q.state \in {"EXPECT_LOCAL_HEADER", "PROCESSING_FRAMES"}
      /\ s.len <= q.received - q.at
  <2>1. /\ q.state \in {"EXPECT_LOCAL_HEADER", "PROCESSING_FRAMES"}
        /\ ~(q.state = "EXPECT_LOCAL_HEADER" /\ NoEntryLeft(p))
        /\ s.kind \notin {"DD", "CDFH", "Unknown"}
        /\ s.kind \in {"LFH", "PadLFH"} => q.state = "EXPECT_LOCAL_HEADER"
    BY DEF SkipPadding, WriteData, StartOfPartInFile, Handles
  <2> QED
    BY <2>1, FrameComplete
<1>3. ASSUME NEW o \in Nat
      PROVE  ProcessorOK([Past(p, s) EXCEPT !.uncompressed_offset = o], p)
  <2> DEFINE n == [Past(p, s) EXCEPT !.uncompressed_offset = o]
  <2>1. q.at + s.len \in Nat /\ q.at + s.len <= q.received /\ q.at <= q.at + s.len
    BY <1>1, <1>2
  <2>2. n \in ProcessorStates
    BY <1>1, <2>1 DEF Past, ProcessorStates
  <2>3. /\ n.at = q.at + s.len /\ n.received = q.received /\ n.file = q.file
        /\ n.state = q.state /\ n.next_entry_idx = q.next_entry_idx
        /\ n.symlink_bytes_read = q.symlink_bytes_read
    BY <1>1 DEF Past, ProcessorStates
  <2> HIDE DEF n
  <2>4. /\ SymlinkRead(n) /\ n.file \in 0..Len(cd_files) /\ (n.file # 0 <=> HasFile(n))
        /\ n.next_entry_idx <= Cardinality(EntriesOf(cd_files, p))
    BY <1>1, <1>2, <2>3 DEF ProcessorOK, HasFile, SymlinkRead
  <2>5. ProcessorOK(n, p)
    BY <1>1, <1>2, <2>1, <2>2, <2>3, <2>4, AdvanceOK
  <2> QED
    BY <2>5 DEF n
<1>4. /\ Past(p, s) = [Past(p, s) EXCEPT !.uncompressed_offset = q.uncompressed_offset]
      /\ Past(p, s).uncompressed_offset = q.uncompressed_offset
  BY <1>1 DEF Past, ProcessorStates
<1>5. ASSUME NEW code \in Errors, Fails(p, code)
      PROVE  \E n : Becomes(p, n) /\ ProcessorOK(n, p)
  BY <1>1, <1>2, <1>5, FailureOK DEF Fails
<1>6. CASE SkipPadding(p, s)
  <2>1. Becomes(p, Past(p, s))
    BY <1>6 DEF SkipPadding
  <2>2. ProcessorOK([Past(p, s) EXCEPT !.uncompressed_offset = q.uncompressed_offset], p)
    BY <1>1, <1>3
  <2>3. ProcessorOK(Past(p, s), p)
    BY <1>4, <2>2, Zenon
  <2> QED
    BY <2>1, <2>3
<1>7. CASE WriteData(p, s)
  <2>1. \/ Becomes(p, [Past(p, s) EXCEPT !.uncompressed_offset = @ + s.ulen])
        \/ Fails(p, "BTRFS_WRITE")
    BY <1>7 DEF WriteData
  <2>2. CASE Becomes(p, [Past(p, s) EXCEPT !.uncompressed_offset = @ + s.ulen])
    <3>1. Becomes(p, [Past(p, s) EXCEPT !.uncompressed_offset = q.uncompressed_offset + s.ulen])
      BY <1>4, <2>2, Zenon
    <3>2. q.uncompressed_offset + s.ulen \in Nat
      BY <1>1
    <3> QED
      BY <1>3, <3>1, <3>2
  <2> QED
    BY <1>5, <2>1, <2>2 DEF Errors
<1>8. CASE StartOfPartInFile(p, s)
  <2>1. \/ Becomes(p, [Past(p, s) EXCEPT !.uncompressed_offset = s.uoff])
        \/ Fails(p, "INVALID_FRAME")
    BY <1>8 DEF StartOfPartInFile, SopOffset
  <2> QED
    BY <1>1, <1>3, <1>5, <2>1 DEF Errors
<1> QED
  BY <1>6, <1>7, <1>8

\* A file is left behind: at its descriptor, at the next header, at the
\* directory.
LEMMA WithoutFileOK ==
  ASSUME NEW q, NEW p, ProcessorOK(q, p), p * part_size \in Nat,
         NEW at \in Nat, q.at <= at, at <= q.received,
         NEW state \in {"EXPECT_LOCAL_HEADER", "DONE"}
  PROVE  ProcessorOK([WithoutFile(q) EXCEPT !.at = at, !.state = state], p)
<1> DEFINE n == [WithoutFile(q) EXCEPT !.at = at, !.state = state]
<1>1. q \in ProcessorStates
  BY DEF ProcessorOK
<1>2. n \in ProcessorStates
  <2>1. state \in States /\ 0 \in Nat
    BY DEF States
  <2> QED
    BY <1>1, <2>1 DEF WithoutFile, ProcessorStates
<1>3. /\ n.at = at /\ n.received = q.received /\ n.file = 0 /\ n.state = state
      /\ n.next_entry_idx = q.next_entry_idx /\ n.symlink_bytes_read = 0
  BY <1>1 DEF WithoutFile, ProcessorStates
<1> HIDE DEF n
<1>4. /\ SymlinkRead(n) /\ n.file \in 0..Len(cd_files) /\ (n.file # 0 <=> HasFile(n))
      /\ n.next_entry_idx <= Cardinality(EntriesOf(cd_files, p))
  <2>1. 0 \in 0..Len(cd_files)
    <3>1. q.file \in 0..Len(cd_files)
      BY DEF ProcessorOK
    <3> QED
      BY <3>1
  <2> QED
    BY <1>3, <2>1 DEF ProcessorOK, HasFile, SymlinkRead
<1>5. ProcessorOK(n, p)
  BY <1>2, <1>3, <1>4, AdvanceOK
<1> QED
  BY <1>5 DEF n

LEMMA LeavingOK ==
  ASSUME AlignInv, RestoreInv, NEW p \in Processors, NEW s, s = FrameAtPosition(proc[p].at),
         Ready(p, s),
         EndOfFile(p, s) \/ NextHeader(p, s) \/ ReachDirectory(p, s) \/ StopAtLastEntry(p)
  PROVE  \E n : Becomes(p, n) /\ ProcessorOK(n, p)
<1> DEFINE q == proc[p]
<1>1. /\ ProcessorOK(q, p) /\ q \in ProcessorStates /\ p * part_size \in Nat
      /\ q.at \in Nat /\ q.received \in Nat /\ q.at <= q.received
      /\ q.state # "READING_SYMLINK" => q.symlink_bytes_read = 0
  BY HandlerFacts
<1>2. /\ WithoutFile(q).at = q.at /\ q.at <= q.at /\ q.received <= q.received
  BY <1>1 DEF ProcessorStates, WithoutFile
<1>3. CASE EndOfFile(p, s)
  <2> DEFINE end == q.at + ParsedDescriptorSize(cd_files[q.file])
             at == Min({end, q.received})
  <2>1. Becomes(p, [WithoutFile(q) EXCEPT !.at = at, !.state = "EXPECT_LOCAL_HEADER"])
    BY <1>3 DEF EndOfFile
  <2>2. end \in Nat /\ q.at <= end
    BY <1>1, Sizes DEF ParsedDescriptorSize
  <2>3. end \in Int /\ q.received \in Int
    BY <1>1, <2>2
  <2> HIDE DEF end
  <2>4. at = IF end <= q.received THEN end ELSE q.received
    BY <2>3, MinMaxOfTwo, Zenon
  <2>5. at \in Nat /\ q.at <= at /\ at <= q.received
    BY <1>1, <2>2, <2>4
  <2> HIDE DEF at
  <2> QED
    BY <1>1, <2>1, <2>5, WithoutFileOK
<1>4. CASE NextHeader(p, s)
  <2>1. Becomes(p, [WithoutFile(q) EXCEPT !.state = "EXPECT_LOCAL_HEADER"])
    BY <1>4 DEF NextHeader
  <2>2. [WithoutFile(q) EXCEPT !.state = "EXPECT_LOCAL_HEADER"] =
          [WithoutFile(q) EXCEPT !.at = q.at, !.state = "EXPECT_LOCAL_HEADER"]
    BY <1>1 DEF WithoutFile, ProcessorStates
  <2>3. ProcessorOK([WithoutFile(q) EXCEPT !.at = q.at, !.state = "EXPECT_LOCAL_HEADER"], p)
    BY <1>1, <1>2, WithoutFileOK, Zenon
  <2> QED
    BY <2>1, <2>2, <2>3, Zenon
<1>5. CASE ReachDirectory(p, s)
  <2>1. Becomes(p, [WithoutFile(q) EXCEPT !.state = "DONE", !.at = q.received])
    BY <1>5 DEF ReachDirectory
  <2>2. [WithoutFile(q) EXCEPT !.state = "DONE", !.at = q.received] =
          [WithoutFile(q) EXCEPT !.at = q.received, !.state = "DONE"]
    BY <1>1 DEF WithoutFile, ProcessorStates
  <2>3. ProcessorOK([WithoutFile(q) EXCEPT !.at = q.received, !.state = "DONE"], p)
    BY <1>1, <1>2, WithoutFileOK, Zenon
  <2> QED
    BY <2>1, <2>2, <2>3, Zenon
<1>6. CASE StopAtLastEntry(p)
  <2> DEFINE n == [q EXCEPT !.state = "DONE", !.at = q.received]
  <2>1. Becomes(p, n) /\ q.state = "EXPECT_LOCAL_HEADER"
    BY <1>6 DEF StopAtLastEntry
  <2>2. n \in ProcessorStates
    BY <1>1 DEF ProcessorStates, States
  <2>3. /\ n.at = q.received /\ n.received = q.received /\ n.file = q.file
        /\ n.state = "DONE" /\ n.next_entry_idx = q.next_entry_idx
        /\ n.symlink_bytes_read = 0
    BY <1>1, <2>1 DEF ProcessorStates
  <2> HIDE DEF n
  <2>4. /\ SymlinkRead(n) /\ n.file \in 0..Len(cd_files) /\ (n.file # 0 <=> HasFile(n))
        /\ n.next_entry_idx <= Cardinality(EntriesOf(cd_files, p))
    BY <1>1, <2>1, <2>3 DEF ProcessorOK, HasFile, SymlinkRead
  <2>5. ProcessorOK(n, p)
    BY <1>1, <2>2, <2>3, <2>4, AdvanceOK
  <2> QED
    BY <2>1, <2>5
<1> QED
  BY <1>3, <1>4, <1>5, <1>6

\* Anything unexpected.
LEMMA RejectingOK ==
  ASSUME AlignInv, RestoreInv, NEW p \in Processors, NEW s, s = FrameAtPosition(proc[p].at),
         RejectFrame(p, s)
  PROVE  \E n : Becomes(p, n) /\ ProcessorOK(n, p)
<1>1. ProcessorOK(proc[p], p)
  BY HandlerFacts
<1>2. proc[p].state # "READING_SYMLINK" /\ Fails(p, "INVALID_FRAME")
  BY DEF RejectFrame, Handles
<1> QED
  BY <1>1, <1>2, FailureOK DEF Fails, Errors

\* A symlink target: no more bytes are copied than there are, and none
\* beyond its size.
LEMMA ReadSymlinkOK ==
  ASSUME AlignInv, RestoreInv, NEW p \in Processors, ReadSymlink(p)
  PROVE  \E n : Becomes(p, n) /\ ProcessorOK(n, p)
<1> DEFINE q == proc[p]
           size == cd_files[q.file].uncompressed_size
           k == Min({q.received - q.at, size - q.symlink_bytes_read})
           sources == {s \in layout : s.kind = "Content" /\ s.at = q.at}
           source == IF q.symlink_bytes_read > 0 \/ sources = {} THEN q.symlink_source
                     ELSE (CHOOSE s \in sources : TRUE).id
           read == [q EXCEPT !.at = @ + k, !.symlink_bytes_read = @ + k,
                             !.symlink_source =
                                IF q.symlink_bytes_read > 0 \/ sources = {} THEN @
                                ELSE (CHOOSE s \in sources : TRUE).id]
<1>1. /\ ProcessorOK(q, p) /\ q \in ProcessorStates /\ p * part_size \in Nat /\ TypeOK
      /\ q.at \in Nat /\ q.received \in Nat /\ q.at <= q.received /\ Len(cd_files) \in Nat
      /\ q.symlink_bytes_read \in Nat /\ q.file \in 0..Len(cd_files)
  BY HandlerFacts
<1>2. q.state = "READING_SYMLINK"
  BY DEF ReadSymlink
<1>3. /\ read.symlink_bytes_read >= size =>
           Becomes(p, [WithoutFile(read) EXCEPT !.state = "EXPECT_LOCAL_HEADER"])
      /\ ~(read.symlink_bytes_read >= size) => Becomes(p, read)
  BY DEF ReadSymlink
<1>4. q.file \in 1..Len(cd_files) /\ size \in Nat /\ q.symlink_bytes_read <= size
  <2>1. q.file # 0 /\ q.symlink_bytes_read <= size
    BY <1>1, <1>2 DEF ProcessorOK, HasFile, SymlinkRead
  <2>2. q.file \in 1..Len(cd_files)
    BY <1>1, <2>1
  <2>3. size \in Nat
    BY <2>2, WhileRestoring DEF ParsedEntries
  <2> QED
    BY <2>1, <2>2, <2>3
<1>5. k \in Nat /\ k <= q.received - q.at /\ k <= size - q.symlink_bytes_read
  <2> DEFINE a == q.received - q.at
             b == size - q.symlink_bytes_read
  <2>1. a \in Nat /\ b \in Nat
    BY <1>1, <1>4
  <2>2. a \in Int /\ b \in Int
    BY <2>1
  <2> HIDE DEF a, b
  <2>3. Min({a, b}) = IF a <= b THEN a ELSE b
    BY <2>2, MinMaxOfTwo, Zenon
  <2>4. Min({a, b}) \in Nat /\ Min({a, b}) <= a /\ Min({a, b}) <= b
    BY <2>1, <2>3
  <2> QED
    BY <2>4 DEF a, b
<1>6. source \in Nat
  <2>1. sources # {} => (CHOOSE s \in sources : TRUE) \in sources
    BY Zenon
  <2>2. \A s \in sources : s.id \in Nat
    BY <1>1 DEF TypeOK, Structures
  <2>3. q.symlink_source \in Nat
    BY <1>1 DEF ProcessorStates
  <2> HIDE DEF sources
  <2> QED
    BY <2>1, <2>2, <2>3
<1>7. read = [q EXCEPT !.at = q.at + k, !.symlink_bytes_read = q.symlink_bytes_read + k,
                       !.symlink_source = source]
  BY <1>1, Zenon
<1> HIDE DEF k, source, sources, size, read
<1>8. read \in ProcessorStates
  <2>1. PICK at \in Nat, n \in Nat : at = q.at + k /\ n = q.symlink_bytes_read + k
    <3>1. q.at \in Nat /\ q.symlink_bytes_read \in Nat /\ k \in Nat
      BY <1>1, <1>5, Zenon
    <3>2. q.at + k \in Nat /\ q.symlink_bytes_read + k \in Nat
      BY <3>1
    <3> QED
      BY <3>2, Zenon
  <2>2. read = [q EXCEPT !.at = at, !.symlink_bytes_read = n, !.symlink_source = source]
    BY <1>7, <2>1
  <2> HIDE DEF q
  <2> QED
    BY <1>1, <1>6, <2>2 DEF ProcessorStates
<1>9. /\ read.at = q.at + k /\ read.received = q.received /\ read.file = q.file
      /\ read.state = "READING_SYMLINK" /\ read.next_entry_idx = q.next_entry_idx
      /\ read.symlink_bytes_read = q.symlink_bytes_read + k
  BY <1>1, <1>2, <1>7 DEF ProcessorStates
<1>10. /\ q.at <= read.at /\ read.at <= q.received /\ read.at \in Nat
       /\ read.symlink_bytes_read <= size
  <2>1. /\ q.at \in Nat /\ q.received \in Nat /\ q.symlink_bytes_read \in Nat /\ size \in Nat
        /\ read.at = q.at + k /\ read.symlink_bytes_read = q.symlink_bytes_read + k
    BY <1>1, <1>4, <1>9, Zenon
  <2> QED
    BY <1>5, <2>1
<1>11. /\ SymlinkRead(read) /\ read.file # 0 /\ HasFile(read)
       /\ read.next_entry_idx <= Cardinality(EntriesOf(cd_files, p))
  BY <1>1, <1>2, <1>4, <1>9, <1>10 DEF ProcessorOK, HasFile, SymlinkRead, size
<1>12. ProcessorOK(read, p)
  BY <1>1, <1>8, <1>9, <1>10, <1>11, AdvanceOK
<1>13. CASE read.symlink_bytes_read >= size
  <2> DEFINE r == read
             n == [WithoutFile(r) EXCEPT !.at = r.at, !.state = "EXPECT_LOCAL_HEADER"]
  <2>1. r.received = q.received /\ r.at <= r.at
    BY <1>8, <1>9, <1>10 DEF ProcessorStates
  <2>2. ProcessorOK(n, p)
    BY <1>1, <1>9, <1>10, <1>12, <2>1, WithoutFileOK
  <2>3. [WithoutFile(r) EXCEPT !.state = "EXPECT_LOCAL_HEADER"] = n
    BY <1>8 DEF WithoutFile, ProcessorStates
  <2> QED
    BY <1>3, <1>13, <2>2, <2>3, Zenon
<1>14. CASE ~(read.symlink_bytes_read >= size)
  BY <1>3, <1>12, <1>14
<1> QED
  BY <1>13, <1>14

\* The callbacks: more bytes, never beyond the part's.
LEMMA ReceiveOK ==
  ASSUME AlignInv, RestoreInv, NEW p \in Processors, NEW c \in ChunkSizes, ReceiveChunk(p, c)
  PROVE  \E n : Becomes(p, n) /\ ProcessorOK(n, p)
<1> DEFINE q == proc[p]
           size == IF p \in PartsInMemory(pos, central_dir_start) THEN part_size ELSE c
           a == q.received + size
           end == PartDataEnd(p)
           n == [q EXCEPT !.received = Min({a, end})]
<1>1. /\ ProcessorOK(q, p) /\ q \in ProcessorStates /\ TypeOK
      /\ q.at \in Nat /\ q.received \in Nat /\ q.at <= q.received
  BY HandlerFacts
<1>2. pos \in Nat \ {0} /\ p \in 0..(NumParts(pos) - 1)
  BY WhileRestoring
<1>3. end \in Nat
  BY <1>1, <1>2, PartHasData
<1>4. a \in Nat /\ q.received <= a /\ q.received <= end
  <2>1. size \in Nat
    BY ProcessorAssumption, CdFetchAssumption
  <2>2. q.received <= end
    BY <1>1 DEF ProcessorOK
  <2> HIDE DEF size
  <2> QED
    BY <1>1, <2>1, <2>2
<1>5. Becomes(p, n)
  <2>1. Becomes(p, [q EXCEPT !.received = Min({@ + size, end})])
    BY DEF ReceiveChunk
  <2> QED
    BY <1>1, <2>1, Zenon
<1>6. Min({a, end}) \in Nat /\ q.received <= Min({a, end}) /\ Min({a, end}) <= end
  <2>1. a \in Int /\ end \in Int
    BY <1>3, <1>4
  <2> HIDE DEF a, end
  <2>2. Min({a, end}) = IF a <= end THEN a ELSE end
    BY <2>1, MinMaxOfTwo, Zenon
  <2> QED
    BY <1>3, <1>4, <2>2
<1>7. PICK received \in Nat : received = Min({a, end})
  BY <1>6
<1>8. n = [q EXCEPT !.received = received]
  BY <1>7
<1>9. n \in ProcessorStates
  BY <1>1, <1>8 DEF ProcessorStates
<1>10. /\ n.at = q.at /\ n.received = received /\ n.file = q.file /\ n.state = q.state
       /\ n.next_entry_idx = q.next_entry_idx
       /\ n.symlink_bytes_read = q.symlink_bytes_read
  BY <1>1, <1>8 DEF ProcessorStates
<1>11. q.at <= received /\ received <= end
  BY <1>1, <1>3, <1>6, <1>7
<1> HIDE DEF n, q, a, size
<1>12. ProcessorOK(n, p)
  BY <1>1, <1>9, <1>10, <1>11 DEF ProcessorOK, HasFile, SymlinkRead
<1> QED
  BY <1>5, <1>12

\* part_processor_finalize, whatever the processor was in the middle of.
LEMMA FinalizeOK ==
  ASSUME AlignInv, RestoreInv, NEW p \in Processors, FinalizePart(p)
  PROVE  \E n : Becomes(p, n) /\ ProcessorOK(n, p)
<1> DEFINE q == proc[p]
           closed == WithoutFile(q)
<1>1. /\ ProcessorOK(q, p) /\ q \in ProcessorStates /\ p * part_size \in Nat
      /\ q.at \in Nat /\ q.received \in Nat /\ q.at <= q.received
      /\ q.symlink_bytes_read \in Nat
  BY HandlerFacts
<1>2. PICK state \in {"ERROR", "DONE"}, error \in Errors, finalized \in BOOLEAN :
        Becomes(p, [closed EXCEPT !.state = state, !.error = error, !.finalized = finalized])
  <2>1. CASE q.at < q.received
    <3>1. Becomes(p, [closed EXCEPT !.state = "ERROR", !.error = "UNEXPECTED_EOF"])
      BY <2>1 DEF FinalizePart
    <3>2. [closed EXCEPT !.state = "ERROR", !.error = "UNEXPECTED_EOF"] =
            [closed EXCEPT !.state = "ERROR", !.error = "UNEXPECTED_EOF",
                           !.finalized = q.finalized]
      BY <1>1 DEF WithoutFile, ProcessorStates
    <3>3. q.finalized \in BOOLEAN
      BY <1>1 DEF ProcessorStates
    <3>4. Becomes(p, [closed EXCEPT !.state = "ERROR", !.error = "UNEXPECTED_EOF",
                                    !.finalized = q.finalized])
      BY <3>1, <3>2, Zenon
    <3> HIDE DEF q, closed
    <3> QED
      BY <3>3, <3>4, Zenon DEF Errors
  <2>2. CASE ~(q.at < q.received)
    <3>1. Becomes(p, [closed EXCEPT !.state = "DONE", !.finalized = TRUE])
      BY <2>2 DEF FinalizePart
    <3>2. [closed EXCEPT !.state = "DONE", !.finalized = TRUE] =
            [closed EXCEPT !.state = "DONE", !.error = q.error, !.finalized = TRUE]
      BY <1>1 DEF WithoutFile, ProcessorStates
    <3>3. q.error \in Errors
      BY <1>1 DEF ProcessorStates
    <3>4. Becomes(p, [closed EXCEPT !.state = "DONE", !.error = q.error, !.finalized = TRUE])
      BY <3>1, <3>2, Zenon
    <3> HIDE DEF q, closed
    <3> QED
      BY <3>3, <3>4, Zenon
  <2> QED
    BY <2>1, <2>2
<1> DEFINE n == [closed EXCEPT !.state = state, !.error = error, !.finalized = finalized]
<1>3. n \in ProcessorStates
  <2>1. state \in States /\ 0 \in Nat
    BY DEF States
  <2> QED
    BY <1>1, <2>1 DEF WithoutFile, ProcessorStates
<1>4. /\ n.at = q.at /\ n.received = q.received /\ n.file = 0 /\ n.state = state
      /\ n.next_entry_idx = q.next_entry_idx /\ n.symlink_bytes_read = 0
  BY <1>1 DEF WithoutFile, ProcessorStates
<1>5. 0 \in 0..Len(cd_files) /\ q.at <= q.at
  <2>1. q.file \in 0..Len(cd_files)
    BY <1>1 DEF ProcessorOK
  <2> QED
    BY <1>1, <2>1
<1> HIDE DEF n, q
<1>6. /\ SymlinkRead(n) /\ n.file \in 0..Len(cd_files) /\ (n.file # 0 <=> HasFile(n))
      /\ n.next_entry_idx <= Cardinality(EntriesOf(cd_files, p))
  BY <1>1, <1>4, <1>5 DEF ProcessorOK, HasFile, SymlinkRead
<1>7. ProcessorOK(n, p)
  BY <1>1, <1>3, <1>4, <1>5, <1>6, AdvanceOK
<1> QED
  BY <1>2, <1>7 DEF n

\* One step of any processor.
LEMMA PartStepOK ==
  ASSUME AlignInv, RestoreInv, NEW p \in Processors, PartSteps(p)
  PROVE  \E n : Becomes(p, n) /\ ProcessorOK(n, p)
<1>1. PICK s : s = FrameAtPosition(proc[p].at)
  OBVIOUS
<1>2. \/ Ready(p, s) /\ (ContinueFile(p, s) \/ OpenEntry(p, s))
      \/ Ready(p, s) /\ (SkipPadding(p, s) \/ WriteData(p, s) \/ StartOfPartInFile(p, s))
      \/ /\ Ready(p, s)
         /\ EndOfFile(p, s) \/ NextHeader(p, s) \/ ReachDirectory(p, s) \/ StopAtLastEntry(p)
      \/ ReadSymlink(p)
      \/ RejectFrame(p, s)
      \/ \E c \in ChunkSizes : ReceiveChunk(p, c)
      \/ FinalizePart(p)
  BY <1>1 DEF PartSteps
<1> QED
  BY <1>1, <1>2, OpeningOK, ConsumingOK, LeavingOK, ReadSymlinkOK, RejectingOK, ReceiveOK,
     FinalizeOK

\* The processors start in order.
LEMMA BeginRestoreOK ==
  ASSUME AlignInv, BeginRestore
  PROVE  RestoreInv'
<1> DEFINE m == NumParts(pos)
           parsed == [i \in DOMAIN files |-> ParsedEntry(files[i])]
<1>1. /\ phase' = "done" /\ pos' = pos /\ files' = files
      /\ central_dir_start' = central_dir_start /\ cd_files' = parsed
      /\ proc' = [p \in 0..(m - 1) |-> NewProcessor(parsed, p)] /\ m > 1
  BY DEF BeginRestore, vars, finalizeVars
<1>2. TypeOK /\ pos \in Nat /\ files \in Seq(FileEntries)
  BY DEF AlignInv, TypeOK
<1>3. pos > 0
  <2> DEFINE k == (0 + part_size - 1) \div part_size
  <2>1. part_size - 1 \in Nat /\ part_size \in Nat \ {0} /\ 0 + part_size - 1 = part_size - 1
    BY CdFetchAssumption
  <2>2. k \in Nat /\ k * part_size <= part_size - 1
    BY <2>1, PartBrackets
  <2>3. k < 1
    <3> HIDE DEF k
    <3>1. ~(k >= 1)
      <4> SUFFICES ASSUME k >= 1 PROVE FALSE
        OBVIOUS
      <4>1. PICK d \in Nat : k = d + 1
        <5>1. k - 1 \in Nat /\ k = (k - 1) + 1
          BY <2>2
        <5> QED
          BY <5>1
      <4>2. d * part_size \in Nat /\ (d + 1) * part_size = d * part_size + part_size
        BY PartStart
      <4> QED
        BY <2>1, <2>2, <4>1, <4>2
    <3> QED
      BY <2>2, <3>1
  <2>4. NumParts(0) = Max({1, k})
    BY DEF NumParts
  <2>5. 1 \in Int /\ k \in Int
    BY <2>2
  <2> HIDE DEF k
  <2>6. Max({1, k}) = IF 1 <= k THEN k ELSE 1
    BY <2>5, MinMaxOfTwo, Zenon
  <2>7. NumParts(0) = 1
    BY <2>2, <2>3, <2>4, <2>6
  <2>8. pos # 0
    BY <1>1, <2>7
  <2> QED
    BY <1>2, <2>8
<1>4. DirectoryParsed'
  BY <1>1, <1>3 DEF DirectoryParsed
<1>5. Directory(parsed, Len(files))
  <2>1. Len(files) \in Nat /\ DOMAIN files = 1..Len(files)
        /\ \A i \in 1..Len(files) : files[i] \in FileEntries
    BY <1>2
  <2>2. \A i \in 1..Len(files) : ParsedEntry(files[i]) \in ParsedEntries
    BY <2>1, ParsedEntryType
  <2>3. \A e \in ParsedEntries : e.local_header_offset \in Nat
    BY DEF ParsedEntries
  <2> QED
    BY <2>1, <2>2, <2>3 DEF Directory
<1>6. Len(parsed) = Len(files) /\ Len(files) \in Nat
  BY <1>2
<1> HIDE DEF parsed, m
<1>7. ASSUME NEW p \in 0..(m - 1)
      PROVE  ProcessorOK(proc[p], p)'
  <2> DEFINE n == NewProcessor(parsed, p)
             start == p * part_size
  <2>1. proc'[p] = n /\ p \in Nat
    <3>1. m \in Nat
      BY <1>2, <1>3, NumPartsCover DEF m
    <3> QED
      BY <1>1, <3>1
  <2>2. start \in Nat
    BY <2>1, PartStart
  <2>3. start < PartDataEnd(p) /\ PartDataEnd(p) \in Nat
    BY <1>2, <1>3, PartHasData DEF m
  <2>4. PartDataEnd(p)' = PartDataEnd(p)
    BY <1>1 DEF PartDataEnd
  <2>5. Cardinality(EntriesOf(parsed, p)) \in Nat
    BY <1>5, EntriesFinite
  <2>6. /\ n.at = start /\ n.received = start /\ n.next_entry_idx = 0 /\ n.file = 0
        /\ n.symlink_bytes_read = 0
        /\ n.state \in {"EXPECT_LOCAL_HEADER", "CONTINUING_FILE"}
        /\ n.state = "CONTINUING_FILE" => ContinuingFile(parsed, p) # 0
    BY DEF NewProcessor
  <2>7. n \in ProcessorStates
    <3>1. PICK state \in {"EXPECT_LOCAL_HEADER", "CONTINUING_FILE"} : state = n.state
      BY <2>6
    <3>2. n = [state |-> state, at |-> start, received |-> start, next_entry_idx |-> 0,
               file |-> 0, uncompressed_offset |-> 0, symlink_bytes_read |-> 0,
               symlink_source |-> 0, error |-> "none",
               finalized |-> FALSE]
      BY <3>1 DEF NewProcessor
    <3>3. state \in States /\ "none" \in Errors /\ 0 \in Nat
      BY DEF States, Errors
    <3> HIDE DEF n, start
    <3> QED
      BY <2>2, <3>2, <3>3 DEF ProcessorStates
  <2> HIDE DEF n
  <2>8. 0 \in 0..Len(parsed)
    BY <1>6
  <2>9. start <= start /\ start <= PartDataEnd(p) /\ 0 <= Cardinality(EntriesOf(parsed, p))
    BY <2>2, <2>3, <2>5
  <2>10. SymlinkRead(proc[p])'
    BY <2>1, <2>6 DEF SymlinkRead
  <2>11. n.state # "ERROR" => (n.file # 0 <=> HasFile(n))
    BY <2>6 DEF HasFile
  <2>12. /\ start <= n.at /\ n.at <= n.received /\ n.received <= PartDataEnd(p)'
         /\ n.next_entry_idx <= Cardinality(EntriesOf(cd_files, p))'
         /\ n.file \in 0..Len(cd_files')
         /\ n.state = "CONTINUING_FILE" => ContinuingFile(cd_files', p) # 0
    BY <1>1, <2>4, <2>6, <2>8, <2>9
  <2> QED
    BY <2>1, <2>7, <2>10, <2>11, <2>12 DEF ProcessorOK, HasFile
<1>8. DOMAIN proc' = 0..(m - 1)
  BY <1>1
<1> QED
  BY <1>4, <1>7, <1>8 DEF RestoreInv, Processors

\* The writer is finished when the restore starts.
LEMMA WriterStepsOK ==
  ASSUME RestoreInv, WriterSteps
  PROVE  RestoreInv'
<1>1. phase # "done"
  BY DEF WriterSteps, BeginFile, AddHeaderOnly, AddSymlink, NextEntry, WriteFrame, EndFile,
         AbortFile, BeginFinalize, WriteCentralHeader, WriteEndRecords
<1>2. proc = <<>> /\ cd_files = <<>> /\ out = <<>>
  BY <1>1 DEF RestoreInv, DirectoryParsed
<1>3. proc' = <<>> /\ cd_files' = <<>> /\ out' = <<>>
  BY <1>2 DEF WriterSteps
<1>4. DOMAIN <<>> = {}
  OBVIOUS
<1> QED
  BY <1>3, <1>4 DEF RestoreInv, DirectoryParsed, Processors

LEMMA RestoreInvStep ==
  ASSUME AlignInv, RestoreInv, [RestoreNext]_restoreVars
  PROVE  RestoreInv'
<1>1. CASE RestoreSteps
  <2>1. PICK p \in Processors : PartSteps(p)
    BY <1>1 DEF RestoreSteps
  <2>2. PICK n : Becomes(p, n) /\ ProcessorOK(n, p)
    BY <2>1, PartStepOK
  <2> QED
    BY <1>1, <2>2, OneProcessorSteps DEF RestoreSteps
<1>2. CASE UNCHANGED restoreVars
  <2>1. /\ phase' = phase /\ pos' = pos /\ files' = files /\ cd_files' = cd_files
        /\ central_dir_start' = central_dir_start /\ proc' = proc /\ out' = out
    BY <1>2 DEF restoreVars, vars, finalizeVars
  <2> QED
    BY <2>1 DEF RestoreInv, DirectoryParsed, Processors, ProcessorOK, SymlinkRead, HasFile,
                PartDataEnd
<1> QED
  BY <1>1, <1>2, BeginRestoreOK, WriterStepsOK DEF RestoreNext

LEMMA RestoreInvariant == RestoreSpec => [](AlignInv /\ RestoreInv)
<1>1. RestoreInit => RestoreInv
  <2>1. DOMAIN <<>> = {}
    OBVIOUS
  <2> QED
    BY <2>1 DEF RestoreInit, RestoreInv, DirectoryParsed, Processors
<1>2. AlignInv /\ RestoreInv /\ [RestoreNext]_restoreVars => RestoreInv'
  BY RestoreInvStep
<1>3. RestoreSpec => []AlignInv
  BY RestoreContainsWriter, AlignInvariant, PTL
<1> QED
  BY <1>1, <1>2, <1>3, PTL DEF RestoreSpec

\* In every state of the composition, each processor stays between the start
\* of its part, the bytes it has received and the end of the part's data,
\* within the entries build_part_map gave the part, and has a file exactly
\* while it reads one (part_processor_process_data and its handlers): for
\* every archive the writer can produce, every part size and every division
\* of the parts into chunks.
THEOREM ProcessorsStayInPart == RestoreSpec => []RestoreTypeOK
<1>1. AlignInv /\ RestoreInv => RestoreTypeOK
  <2> SUFFICES ASSUME AlignInv, RestoreInv, NEW p \in Processors
               PROVE  LET q == proc[p]
                      IN /\ q.state \in States
                         /\ q.error \in {"none", "INVALID_FRAME", "IO", "BTRFS_WRITE",
                                         "UNEXPECTED_EOF"}
                         /\ /\ p * part_size <= q.at /\ q.at <= q.received
                            /\ q.received <= PartDataEnd(p)
                         /\ q.next_entry_idx \in 0..Cardinality(EntriesOf(cd_files, p))
                         /\ q.file \in 0..Len(cd_files)
                         /\ q.state # "ERROR" =>
                              (q.file # 0) =
                                (q.state \in {"PROCESSING_FRAMES", "READING_SYMLINK"})
    BY DEF RestoreTypeOK
  <2> DEFINE q == proc[p]
             c == Cardinality(EntriesOf(cd_files, p))
  <2>1. ProcessorOK(q, p) /\ q.next_entry_idx \in Nat /\ c \in Nat
    BY HandlerFacts
  <2>2. q.state \in States /\ q.error \in Errors
    BY <2>1 DEF ProcessorOK, ProcessorStates
  <2>3. q.next_entry_idx \in 0..c
    <3>1. q.next_entry_idx <= c
      BY <2>1 DEF ProcessorOK
    <3> HIDE DEF c
    <3> QED
      BY <2>1, <3>1
  <2>4. q.state # "ERROR" =>
          (q.file # 0) = (q.state \in {"PROCESSING_FRAMES", "READING_SYMLINK"})
    <3>1. q.state # "ERROR" =>
            (q.file # 0 <=> q.state \in {"PROCESSING_FRAMES", "READING_SYMLINK"})
      BY <2>1 DEF ProcessorOK, HasFile
    <3> QED
      BY <3>1
  <2>5. /\ p * part_size <= q.at /\ q.at <= q.received /\ q.received <= PartDataEnd(p)
        /\ q.file \in 0..Len(cd_files)
    BY <2>1 DEF ProcessorOK
  <2> QED
    BY <2>2, <2>3, <2>4, <2>5, Zenon DEF Errors
<1> QED
  BY <1>1, RestoreInvariant, PTL

\* The directory comes back as it was written: whichever of the two sizes
\* and the offset overflow their 32 bits, parse_zip64_extra_field finds each
\* of them where build_zip64_extra_field put it, and the processors step over
\* descriptors as large as the ones add_file wrote.  The exception is a size
\* of exactly 0xFFFFFFFF.
THEOREM DirectoryRoundTrip == RestoreSpec => []ParsedAsWritten
<1>1. AlignInv /\ RestoreInv => ParsedAsWritten
  <2> SUFFICES ASSUME AlignInv, RestoreInv, NEW i \in DOMAIN cd_files, ~AtFieldLimit(files[i])
               PROVE  /\ cd_files[i].uncompressed_size = files[i].uncompressed_size
                      /\ cd_files[i].compressed_size = files[i].compressed_size
                      /\ cd_files[i].local_header_offset = files[i].local_header_offset
                      /\ ParsedDescriptorSize(cd_files[i]) =
                           DescriptorSize(files[i].compressed_size, files[i].uncompressed_size)
    BY DEF ParsedAsWritten
  <2>1. cd_files # <<>>
    OBVIOUS
  <2>2. cd_files = [j \in DOMAIN files |-> ParsedEntry(files[j])]
    BY <2>1 DEF RestoreInv, DirectoryParsed
  <2>3. i \in DOMAIN files /\ cd_files[i] = ParsedEntry(files[i])
    BY <2>2
  <2>4. files[i] \in FileEntries
    BY <2>3 DEF AlignInv, TypeOK
  <2> QED
    BY <2>3, <2>4, RoundTrip, DescriptorAsWritten
<1> QED
  BY <1>1, RestoreInvariant, PTL

(***************************************************************************)
(* What the processors meet in the bytes of an archive none of whose files *)
(* failed half-way, and none of whose sizes is the 32-bit marker.          *)
(***************************************************************************)
Good == ~SomeFileAborted /\ NoneAtFieldLimit

Pieces == Body(layout)

ArchiveInv == AlignInv /\ OrderInv /\ LocateInv /\ TileInv

Restorable == ArchiveInv /\ RestoreInv /\ Good /\ proc # <<>>

\* The writer is finished: nothing is open, and the data ends where the
\* directory starts.
LEMMA ArchiveWritten ==
  ASSUME Restorable
  PROVE  /\ phase = "done" /\ central_dir_start \in Nat /\ pos \in Nat \ {0}
         /\ layout \in SUBSET Structures /\ Pieces \in SUBSET Structures
         /\ files \in Seq(FileEntries) /\ Len(files) \in Nat
         /\ Tiled(Pieces, central_dir_start)
         /\ \A s \in Pieces : Sized(s)
         /\ Ordered(Pieces, attempts) /\ Headed(Pieces)
         /\ Followed(Pieces, central_dir_start, 0)
         /\ Counted(Pieces) /\ TargetsPlaced(Pieces)
         /\ DataEnd = central_dir_start
<1>1. phase = "done" /\ pos > 0
  BY DEF Restorable, RestoreInv, DirectoryParsed
<1>2. TypeOK
  BY DEF Restorable, ArchiveInv, AlignInv
<1>3. /\ central_dir_start \in Nat /\ pos \in Nat \ {0} /\ layout \in SUBSET Structures
      /\ files \in Seq(FileEntries) /\ Len(files) \in Nat
  BY <1>1, <1>2 DEF TypeOK
<1>4. DataEnd = central_dir_start /\ OpenId = 0
  BY <1>1 DEF DataEnd, OpenId
<1>5. Chain(Pieces, central_dir_start, 0, cur.total_uncompressed, attempts)
  BY <1>4 DEF Restorable, ArchiveInv, TileInv, ChainInv, Pieces
<1>6. Pieces \in SUBSET Structures
  BY <1>3 DEF Pieces, Body
<1> QED
  BY <1>1, <1>3, <1>4, <1>5, <1>6 DEF Chain

LEMMA PieceTypes ==
  ASSUME Restorable, NEW s \in Pieces
  PROVE  /\ s \in layout /\ s \in Structures /\ s.kind \notin {"CDFH", "End"}
         /\ s.at \in Nat /\ s.len \in Nat \ {0} /\ s.id \in Nat /\ s.uoff \in Nat
         /\ s.ulen \in Nat
         /\ s.at + s.len <= central_dir_start /\ s.at < central_dir_start
<1>1. s \in layout /\ s.kind \notin {"CDFH", "End"}
  BY DEF Pieces, Body
<1>2. s \in Structures /\ central_dir_start \in Nat
  BY ArchiveWritten
<1>3. s.at \in Nat /\ s.len \in Nat /\ s.id \in Nat /\ s.uoff \in Nat /\ s.ulen \in Nat
  BY <1>2 DEF Structures
<1>4. s.len > 0 /\ s.at + s.len <= central_dir_start
  BY ArchiveWritten DEF Tiled
<1> QED
  BY <1>1, <1>2, <1>3, <1>4

\* Two pieces do not share a byte.
LEMMA OnePiece ==
  ASSUME Restorable, NEW s \in Pieces, NEW t \in Pieces, s.at <= t.at, t.at < s.at + s.len
  PROVE  t = s
<1>1. t = s \/ s.at + s.len <= t.at \/ t.at + t.len <= s.at
  BY ArchiveWritten DEF Tiled
<1>2. s.at \in Nat /\ s.len \in Nat /\ t.at \in Nat /\ t.len \in Nat \ {0}
  BY PieceTypes
<1> QED
  BY <1>1, <1>2

\* What is not data lies behind it.
LEMMA PieceBelow ==
  ASSUME Restorable, NEW s \in layout
  PROVE  /\ s.at \in Nat
         /\ s \in Pieces <=> s.at < central_dir_start
         /\ s.kind \notin {"CDFH", "End"} => s \in Pieces
<1>1. s \in Structures /\ central_dir_start \in Nat /\ phase = "done"
  BY ArchiveWritten
<1>2. s.at \in Nat
  BY <1>1 DEF Structures
<1>3. s \in Pieces \/ s.at >= central_dir_start
  BY <1>1 DEF Restorable, ArchiveInv, TileInv, DirectoryBehind, Pieces
<1>4. s \in Pieces => s.at < central_dir_start
  BY PieceTypes
<1>5. s.kind \notin {"CDFH", "End"} => s \in Pieces
  BY DEF Pieces, Body
<1> QED
  BY <1>1, <1>2, <1>3, <1>4, <1>5

\* The directory starts with a header, long enough before the next boundary
\* and before the end of the archive.
LEMMA DirectoryStarts ==
  ASSUME Restorable
  PROVE  /\ \E s \in layout : s.kind = "CDFH" /\ s.at = central_dir_start
         /\ central_dir_start + 106 <= pos
         /\ SpaceUntilBoundary(central_dir_start) >= 44
<1>1. phase = "done" /\ Len(files) \in Nat /\ central_dir_start \in Nat /\ pos \in Nat
      /\ files \in Seq(FileEntries)
  BY ArchiveWritten
<1>2. /\ files # <<>> /\ next_cdfh > Len(files) /\ pos >= central_dir_start + 106
      /\ next_cdfh > 1 => \E s \in layout : s.kind = "CDFH" /\ s.at = central_dir_start
      /\ SpaceUntilBoundary(central_dir_start) >= PADDING_LFH_MIN_SIZE
  BY <1>1 DEF Restorable, ArchiveInv, TileInv, DirectoryBehind, Good
<1>3. next_cdfh \in Nat
  BY DEF Restorable, ArchiveInv, AlignInv, TypeOK
<1>4. Len(files) # 0
  BY <1>1, <1>2
<1>5. next_cdfh > 1
  BY <1>1, <1>2, <1>3, <1>4
<1> QED
  BY <1>1, <1>2, <1>5, Sizes

\* Where a piece ends another starts, or the directory.
LEMMA PieceFollows ==
  ASSUME Restorable, NEW s \in Pieces
  PROVE  \E t \in layout : t.at = s.at + s.len
<1>1. s.at + s.len = central_dir_start \/ \E t \in Pieces : t.at = s.at + s.len
  BY ArchiveWritten DEF Tiled
<1> QED
  BY <1>1, DirectoryStarts, PieceTypes

\* parse_next_frame recognizes the piece that starts at a position,
LEMMA FrameIsPiece ==
  ASSUME Restorable, NEW s \in Pieces, s.kind # "Content"
  PROVE  FrameAtPosition(s.at) = s
<1> DEFINE here == {t \in layout : t.at = s.at /\ t.kind \in Recognized}
<1>1. s \in layout /\ s \in Structures /\ s.kind \notin {"CDFH", "End"} /\ s.at \in Nat
      /\ s.len \in Nat \ {0} /\ s.at < central_dir_start
  BY PieceTypes
<1>2. s \in here
  BY <1>1 DEF Recognized, Structures, Kinds
<1>3. \A t \in here : t = s
  <2> SUFFICES ASSUME NEW t \in here PROVE t = s
    OBVIOUS
  <2>1. t \in layout /\ t.at = s.at
    OBVIOUS
  <2>2. t \in Pieces
    BY <1>1, <2>1, PieceBelow
  <2>3. s.at <= t.at /\ t.at < s.at + s.len
    BY <1>1, <2>1
  <2> QED
    BY <2>2, <2>3, OnePiece
<1>4. FrameAtPosition(s.at) = CHOOSE t \in here : TRUE
  BY <1>2, Zenon DEF FrameAtPosition
<1>5. (CHOOSE t \in here : TRUE) \in here
  BY <1>2, Zenon
<1> QED
  BY <1>3, <1>4, <1>5, Zenon

\* a directory header where the directory starts,
LEMMA FrameIsDirectory ==
  ASSUME Restorable
  PROVE  FrameAtPosition(central_dir_start).kind = "CDFH"
<1> DEFINE f == FrameAtPosition(central_dir_start)
<1>1. PICK s \in layout : s.kind = "CDFH" /\ s.at = central_dir_start
  BY DirectoryStarts
<1>2. TypeOK /\ central_dir_start \in Nat
  BY ArchiveWritten DEF Restorable, ArchiveInv, AlignInv
<1>3. /\ f.at = central_dir_start
      /\ \/ f \in layout /\ f.kind \in Recognized
         \/ \A t \in layout : t.at = central_dir_start => t.kind \notin Recognized
  BY <1>2, FrameSeen
<1>4. f \in layout /\ f.kind \in Recognized
  BY <1>1, <1>3 DEF Recognized
<1>5. f \notin Pieces
  BY <1>2, <1>3, PieceTypes
<1> HIDE DEF f
<1>6. f.kind \in {"CDFH", "End"}
  BY <1>4, <1>5 DEF Pieces, Body
<1>7. f.kind = "CDFH"
  BY <1>4, <1>6 DEF Recognized
<1> QED
  BY <1>7 DEF f

\* and nothing inside a piece.
LEMMA FrameInsidePiece ==
  ASSUME Restorable, NEW d \in Pieces, NEW at \in Nat, d.at < at, at < d.at + d.len
  PROVE  FrameAtPosition(at).kind = "Unknown"
<1> DEFINE f == FrameAtPosition(at)
<1>1. TypeOK
  BY DEF Restorable, ArchiveInv, AlignInv
<1>2. f.at = at /\ (f \in layout \/ f.kind = "Unknown")
  BY <1>1, FrameSeen
<1>3. d.at \in Nat /\ d.len \in Nat /\ d.at + d.len <= central_dir_start
      /\ central_dir_start \in Nat
  BY PieceTypes, ArchiveWritten
<1> HIDE DEF f
<1>4. ASSUME f \in layout PROVE FALSE
  <2>1. f.at < central_dir_start /\ d.at <= f.at /\ f.at < d.at + d.len
    BY <1>2, <1>3
  <2>2. f \in Pieces
    BY <1>4, <2>1, PieceBelow
  <2>3. f = d
    BY <2>1, <2>2, OnePiece
  <2> QED
    BY <1>2, <1>3, <2>3
<1> QED
  BY <1>2, <1>4 DEF f

(***************************************************************************)
(* The entries and their headers.                                          *)
(***************************************************************************)

\* The directory was parsed as it was written.
LEMMA EntriesParsed ==
  ASSUME Restorable
  PROVE  /\ Len(cd_files) = Len(files) /\ Directory(cd_files, Len(files))
         /\ DOMAIN cd_files = 1..Len(files) /\ DOMAIN files = 1..Len(files)
         /\ Processors = 0..(NumParts(pos) - 1)
<1>1. /\ pos \in Nat \ {0} /\ DOMAIN proc = 0..(NumParts(pos) - 1)
  BY ArchiveWritten DEF Restorable, RestoreInv, DirectoryParsed
<1>2. NumParts(pos) \in Nat \ {0}
  BY <1>1, NumPartsCover
<1>3. 0 \in Processors
  BY <1>1, <1>2 DEF Processors
<1>4. AlignInv /\ RestoreInv
  BY DEF Restorable, ArchiveInv
<1>5. /\ cd_files \in Seq(ParsedEntries) /\ Len(cd_files) = Len(files)
      /\ Directory(cd_files, Len(cd_files))
  BY <1>3, <1>4, WhileRestoring
<1>6. files \in Seq(FileEntries)
  BY ArchiveWritten
<1> QED
  BY <1>1, <1>5, <1>6 DEF Processors

LEMMA EntryParsed ==
  ASSUME Restorable, NEW i \in 1..Len(files)
  PROVE  /\ files[i] \in FileEntries
         /\ cd_files[i].id = files[i].id
         /\ cd_files[i].kind = files[i].kind
         /\ cd_files[i].name_len = files[i].name_len
         /\ cd_files[i].uncompressed_size = files[i].uncompressed_size
         /\ cd_files[i].compressed_size = files[i].compressed_size
         /\ cd_files[i].local_header_offset = files[i].local_header_offset
         /\ cd_files[i].part_index = files[i].local_header_offset \div part_size
         /\ ParsedDescriptorSize(cd_files[i]) =
              DescriptorSize(files[i].compressed_size, files[i].uncompressed_size)
<1>1. files[i] \in FileEntries
  BY ArchiveWritten
<1>2. cd_files[i] = ParsedEntry(files[i])
  BY EntriesParsed DEF Restorable, RestoreInv, DirectoryParsed
<1>3. ~AtFieldLimit(files[i])
  BY EntriesParsed DEF Restorable, Good, NoneAtFieldLimit
<1> QED
  BY <1>1, <1>2, <1>3, RoundTrip, DescriptorAsWritten, ParsedEntryType

LEMMA EntryTypes ==
  ASSUME Restorable, NEW i \in 1..Len(files)
  PROVE  /\ files[i].id \in Nat /\ files[i].local_header_offset \in Nat
         /\ files[i].uncompressed_size \in Nat /\ files[i].compressed_size \in Nat
         /\ files[i].name_len \in Nat /\ files[i].kind \in EntryKinds
  BY EntryParsed DEF FileEntries

\* An earlier piece belongs to the same entry or an earlier one.
LEMMA IdsInOrder ==
  ASSUME Restorable, NEW s \in Pieces, NEW t \in Pieces, s.at <= t.at
  PROVE  s.id <= t.id
<1>1. s.at < t.at => s.id <= t.id
  BY ArchiveWritten DEF Ordered
<1>2. /\ s.at \in Nat /\ t.at \in Nat /\ s.len \in Nat \ {0} /\ s.id \in Nat
      /\ t.at = s.at => t.at < s.at + s.len
  BY PieceTypes
<1>3. t.at = s.at => t = s
  BY <1>2, OnePiece
<1> QED
  BY <1>1, <1>2, <1>3

\* Nothing but padding headers comes before a header of the same entry.
LEMMA NothingBeforeHeader ==
  ASSUME Restorable, NEW h \in Pieces, h.kind \in {"LFH", "PadLFH"},
         NEW t \in Pieces, t.at < h.at, t.kind # "PadLFH"
  PROVE  t.id < h.id
<1>1. t.id # h.id
  BY ArchiveWritten DEF Headed
<1>2. t.id <= h.id
  <2>1. t.at <= h.at
    BY PieceTypes
  <2> QED
    BY <2>1, IdsInOrder
<1> QED
  BY <1>1, <1>2, PieceTypes

\* Every entry has one header, at its offset.
LEMMA OneHeader ==
  ASSUME Restorable, NEW h \in Pieces, NEW k \in Pieces, h.kind = "LFH", k.kind = "LFH",
         h.id = k.id
  PROVE  h = k
<1>1. h.at \in Nat /\ k.at \in Nat /\ h.id \in Nat /\ h.len \in Nat \ {0}
  BY PieceTypes
<1>2. ~(h.at < k.at)
  BY <1>1, NothingBeforeHeader
<1>3. ~(k.at < h.at)
  BY <1>1, NothingBeforeHeader
<1>4. h.at <= k.at /\ k.at < h.at + h.len
  BY <1>1, <1>2, <1>3
<1> QED
  BY <1>4, OnePiece

LEMMA EntryHeader ==
  ASSUME Restorable, NEW i \in 1..Len(files)
  PROVE  \E h \in Pieces : /\ h.kind = "LFH" /\ h.id = files[i].id
                           /\ h.at = files[i].local_header_offset
                           /\ h.len = LfhLen(files[i].name_len)
<1>1. PICK h \in layout : /\ h.kind = "LFH" /\ h.id = files[i].id
                          /\ h.at = files[i].local_header_offset
                          /\ h.at + h.len =
                               files[i].local_header_offset + LfhLen(files[i].name_len)
  BY DEF Restorable, ArchiveInv, LocateInv, EntriesLocateData
<1>2. h \in Pieces
  BY <1>1, PieceBelow
<1>3. h.at \in Nat /\ h.len \in Nat /\ LfhLen(files[i].name_len) \in Nat
  BY <1>2, PieceTypes, EntryTypes DEF LfhLen
<1> QED
  BY <1>1, <1>2, <1>3

LEMMA IdsDiffer ==
  ASSUME Restorable, NEW i \in 1..Len(files), NEW j \in 1..Len(files),
         files[i].id = files[j].id
  PROVE  i = j
<1>1. /\ i < j => files[i].id < files[j].id
      /\ j < i => files[j].id < files[i].id
  BY DEF Restorable, ArchiveInv, TileInv, EntriesKept
<1>2. files[i].id \in Nat /\ files[j].id \in Nat
  BY EntryTypes
<1>3. ~(i < j) /\ ~(j < i)
  BY <1>1, <1>2
<1>4. i \in Nat /\ j \in Nat
  BY ArchiveWritten
<1> QED
  BY <1>3, <1>4

\* Every header has an entry.
LEMMA HeaderRecorded ==
  ASSUME Restorable, NEW h \in Pieces, h.kind = "LFH"
  PROVE  \E i \in 1..Len(files) : /\ files[i].id = h.id
                                  /\ files[i].local_header_offset = h.at
<1>1. h \in layout /\ phase = "done"
  BY PieceTypes, ArchiveWritten
<1>2. PICK i \in 1..Len(files) : files[i].id = h.id
  BY <1>1 DEF Restorable, Good, SomeFileAborted, Recorded
<1>3. PICK k \in Pieces : k.kind = "LFH" /\ k.id = files[i].id
                          /\ k.at = files[i].local_header_offset
  BY EntryHeader
<1>4. k = h
  BY <1>2, <1>3, OneHeader
<1> QED
  BY <1>2, <1>3, <1>4

\* Two entries at the same offset are one.
LEMMA EntryOffsets ==
  ASSUME Restorable, NEW i \in 1..Len(files), NEW j \in 1..Len(files),
         files[i].local_header_offset = files[j].local_header_offset
  PROVE  i = j
<1>1. PICK h \in Pieces : h.kind = "LFH" /\ h.id = files[i].id
                          /\ h.at = files[i].local_header_offset
  BY EntryHeader
<1>2. PICK k \in Pieces : k.kind = "LFH" /\ k.id = files[j].id
                          /\ k.at = files[j].local_header_offset
  BY EntryHeader
<1>3. h.at <= k.at /\ k.at < h.at + h.len
  BY <1>1, <1>2, PieceTypes
<1>4. k = h
  BY <1>3, OnePiece
<1>5. files[i].id = files[j].id
  BY <1>1, <1>2, <1>4
<1> QED
  BY <1>5, IdsDiffer

\* A piece behind the header of an entry belongs to the entry if no other
\* header lies between; headers themselves excepted.
LEMMA OwnPiece ==
  ASSUME Restorable, NEW i \in 1..Len(files), NEW s \in Pieces,
         files[i].local_header_offset < s.at,
         \A h \in Pieces : h.kind = "LFH" /\ h.at < s.at => h.id <= files[i].id,
         s.kind \notin {"LFH", "PadLFH"}
  PROVE  s.id = files[i].id
<1>1. PICK h \in Pieces : h.kind = "LFH" /\ h.id = s.id /\ h.at <= s.at
  BY ArchiveWritten DEF Headed
<1>2. h # s /\ h.at \in Nat /\ s.at \in Nat /\ h.len \in Nat \ {0} /\ s.id \in Nat
  BY <1>1, PieceTypes
<1>3. h.at # s.at
  <2> SUFFICES ASSUME h.at = s.at PROVE FALSE
    OBVIOUS
  <2>1. h.at <= s.at /\ s.at < h.at + h.len
    BY <1>2
  <2> QED
    BY <1>2, <2>1, OnePiece
<1>4. s.id <= files[i].id
  BY <1>1, <1>2, <1>3
<1>5. PICK k \in Pieces : k.id = files[i].id /\ k.at = files[i].local_header_offset
  BY EntryHeader
<1>6. k.at <= s.at
  BY <1>2, <1>5, PieceTypes
<1>7. files[i].id <= s.id
  BY <1>5, <1>6, IdsInOrder
<1> QED
  BY <1>2, <1>4, <1>7, EntryTypes

\* What a piece of an entry says about the entry's kind.
LEMMA OwnKind ==
  ASSUME Restorable, NEW i \in 1..Len(files), NEW s \in Pieces, s.id = files[i].id
  PROVE  /\ s.kind \in {"Frame", "SOP", "DD"} => files[i].kind = "file"
         /\ s.kind = "Content" => files[i].kind = "symlink"
         /\ s.kind = "DD" => s.len = ParsedDescriptorSize(cd_files[i])
<1>1. Kept(files[i], Pieces, DataEnd)
  BY DEF Restorable, ArchiveInv, TileInv, EntriesKept, Pieces
<1> QED
  BY <1>1, EntryParsed DEF Kept

(***************************************************************************)
(* Parts: every part of the download begins at a boundary of the format,   *)
(* and no piece reaches into the next one.                                 *)
(***************************************************************************)
LEMMA PartAtBoundary ==
  ASSUME NEW p \in Nat
  PROVE  \E k \in Nat : p * part_size = k * PART_SIZE
<1>1. PICK m \in Nat : part_size = m * PART_SIZE
  <2>1. part_size \in Nat /\ PART_SIZE \in Nat \ {0} /\ part_size % PART_SIZE = 0
    BY CdFetchAssumption, RestoreAssumption, FormatAssumption
  <2>2. part_size \div PART_SIZE \in Nat
    BY <2>1, QuotientBrackets
  <2>3. part_size = (part_size \div PART_SIZE) * PART_SIZE
    BY <2>1, Z3
  <2> QED
    BY <2>2, <2>3
<1>2. PART_SIZE \in Nat
  BY FormatAssumption
<1>3. p * m \in Nat
  BY Z3
<1>4. p * (m * PART_SIZE) = (p * m) * PART_SIZE
  BY <1>2, Z3
<1> QED
  BY <1>1, <1>3, <1>4

\* The next boundary lies in the part or ends it.
LEMMA BoundaryInPart ==
  ASSUME NEW p \in Nat, NEW o \in Nat, o < p * part_size + part_size
  PROVE  o + SpaceUntilBoundary(o) <= p * part_size + part_size
<1>1. p + 1 \in Nat /\ (p + 1) * part_size = p * part_size + part_size
  BY PartStart
<1>2. PICK k \in Nat : (p + 1) * part_size = k * PART_SIZE
  BY <1>1, PartAtBoundary
<1>3. (p + 1) * part_size \in Nat
  BY <1>1, PartStart
<1>4. PICK e \in Nat : e = k * PART_SIZE /\ e = p * part_size + part_size
  BY <1>1, <1>2, <1>3
<1>5. SpaceUntilBoundary(o) \in Nat
  BY SpaceRange
<1> SUFFICES ASSUME e < o + SpaceUntilBoundary(o) PROVE FALSE
  BY <1>4, <1>5
<1>6. o < e
  BY <1>4
<1>7. o <= k * PART_SIZE /\ k * PART_SIZE < o + SpaceUntilBoundary(o)
  BY <1>4, <1>6
<1>8. k * PART_SIZE = o
  BY <1>7, NoBoundaryInside
<1> QED
  BY <1>4, <1>6, <1>8

\* Where the bytes of a part end.
LEMMA PartEnds ==
  ASSUME Restorable, NEW p \in Processors
  PROVE  /\ p \in Nat /\ p * part_size \in Nat /\ part_size \in Nat \ {0}
         /\ PartDataEnd(p) \in Nat
         /\ p * part_size < PartDataEnd(p)
         /\ PartDataEnd(p) <= p * part_size + part_size
         /\ p * part_size + part_size <= central_dir_start =>
              PartDataEnd(p) = p * part_size + part_size
         /\ central_dir_start < p * part_size + part_size =>
              PartDataEnd(p) \in {central_dir_start, p * part_size + part_size, pos}
<1>1. pos \in Nat \ {0} /\ central_dir_start \in Nat /\ central_dir_start + 106 <= pos
  BY ArchiveWritten, DirectoryStarts
<1>2. TypeOK
  BY DEF Restorable, ArchiveInv, AlignInv
<1>3. p \in 0..(NumParts(pos) - 1)
  BY EntriesParsed
<1>4. PartDataEnd(p) \in Nat /\ p * part_size < PartDataEnd(p)
  BY <1>1, <1>2, <1>3, PartHasData
<1>5. p \in Nat
  BY <1>1, <1>3, NumPartsCover
<1>6. PICK b \in Nat, e \in Nat : /\ b = p * part_size /\ e = p * part_size + part_size
                                  /\ e = (p + 1) * part_size /\ b < e
  BY <1>5, PartStart, CdFetchAssumption
<1>7. CASE p \in PartsInMemory(pos, central_dir_start)
  <2>1. PartDataEnd(p) = PartBodyEnd(p, central_dir_start)
    BY <1>7 DEF PartDataEnd
  <2>2. PartBodyEnd(p, central_dir_start) = IF e <= central_dir_start THEN e
                                            ELSE central_dir_start
    BY <1>1, <1>5, <1>6, BodyEnd
  <2>3. /\ PartDataEnd(p) <= e
        /\ e <= central_dir_start => PartDataEnd(p) = e
        /\ central_dir_start < e => PartDataEnd(p) = central_dir_start
    BY <1>1, <2>1, <2>2
  <2> QED
    BY <1>4, <1>5, <1>6, <2>3, CdFetchAssumption
<1>8. CASE p \notin PartsInMemory(pos, central_dir_start)
  <2>1. PartDataEnd(p) = Min({e, pos})
    BY <1>6, <1>8 DEF PartDataEnd
  <2>2. e \in Int /\ pos \in Int
    BY <1>1
  <2>3. Min({e, pos}) = IF e <= pos THEN e ELSE pos
    BY <2>2, MinMaxOfTwo, Zenon
  <2>4. /\ PartDataEnd(p) <= e
        /\ e <= central_dir_start => PartDataEnd(p) = e
        /\ PartDataEnd(p) = e \/ PartDataEnd(p) = pos
    BY <1>1, <2>1, <2>3
  <2> QED
    BY <1>4, <1>5, <1>6, <2>4, CdFetchAssumption
<1> QED
  BY <1>7, <1>8

\* A piece that starts in a part ends in it, and is delivered whole.
LEMMA PieceInPart ==
  ASSUME Restorable, NEW p \in Processors, NEW s \in Pieces,
         p * part_size <= s.at, s.at < p * part_size + part_size
  PROVE  s.at + s.len <= PartDataEnd(p)
<1>1. PICK b \in Nat, e \in Nat, d \in Nat :
        /\ p \in Nat /\ b = p * part_size /\ e = p * part_size + part_size
        /\ d = PartDataEnd(p) /\ d <= e
        /\ e <= central_dir_start => d = e
        /\ central_dir_start < e => d \in {central_dir_start, e, pos}
  BY PartEnds
<1>2. s.at \in Nat /\ s.len \in Nat /\ s.at + s.len <= central_dir_start
  BY PieceTypes
<1>3. central_dir_start \in Nat /\ pos \in Nat /\ central_dir_start + 106 <= pos
  BY ArchiveWritten, DirectoryStarts
<1>4. s.len <= SpaceUntilBoundary(s.at)
  BY PieceTypes DEF Restorable, ArchiveInv, AlignInv, Uncut
<1>5. s.at + SpaceUntilBoundary(s.at) <= e
  BY <1>1, <1>2, BoundaryInPart
<1>6. SpaceUntilBoundary(s.at) \in Nat
  BY <1>2, SpaceRange
<1>7. s.at + s.len <= e
  BY <1>1, <1>2, <1>4, <1>5, <1>6
<1> QED
  BY <1>1, <1>2, <1>3, <1>7

\* A piece before the end of a part's bytes starts in the part.
LEMMA PartCovers ==
  ASSUME Restorable, NEW p \in Processors, NEW s \in Pieces, p * part_size <= s.at
  PROVE  s.at < PartDataEnd(p) <=> s.at < p * part_size + part_size
<1>1. s.at < PartDataEnd(p) => s.at < p * part_size + part_size
  BY PartEnds, PieceTypes
<1>2. ASSUME s.at < p * part_size + part_size PROVE s.at < PartDataEnd(p)
  <2>1. s.at + s.len <= PartDataEnd(p)
    BY <1>2, PieceInPart
  <2> QED
    BY <2>1, PieceTypes, PartEnds
<1> QED
  BY <1>1, <1>2

\* The first piece of a part is a header or a Start-of-Part frame.
LEMMA BoundaryBegins ==
  ASSUME Restorable, NEW p \in Nat, p * part_size < central_dir_start
  PROVE  \E s \in Pieces : s.at = p * part_size /\ s.kind \in {"LFH", "PadLFH", "SOP"}
<1>2. PICK k \in Nat : p * part_size = k * PART_SIZE
  BY PartAtBoundary
<1>3. k * PART_SIZE < DataEnd
  BY <1>2, ArchiveWritten
<1>4. PICK s \in layout : s.at = k * PART_SIZE /\ s.kind \in EntryPoints
  BY <1>3 DEF Restorable, ArchiveInv, AlignInv, Rule
<1>5. s.kind \in {"LFH", "PadLFH", "SOP"}
  BY <1>4 DEF EntryPoints
<1>6. s \in Pieces
  BY <1>5, PieceBelow
<1> QED
  BY <1>2, <1>4, <1>5, <1>6

LEMMA PartBegins ==
  ASSUME Restorable, NEW p \in Processors, p * part_size < central_dir_start
  PROVE  \E s \in Pieces : s.at = p * part_size /\ s.kind \in {"LFH", "PadLFH", "SOP"}
  BY PartEnds, BoundaryBegins

\* An entry belongs to the part its header lies in.
LEMMA EntryInPart ==
  ASSUME Restorable, NEW p \in Nat, NEW i \in 1..Len(files)
  PROVE  i \in EntriesOf(cd_files, p) <=>
           /\ p * part_size <= files[i].local_header_offset
           /\ files[i].local_header_offset < p * part_size + part_size
<1> DEFINE o == files[i].local_header_offset
<1>1. o \in Nat
  BY EntryTypes
<1>2. cd_files[i].part_index = o \div part_size /\ DOMAIN cd_files = 1..Len(files)
  BY EntryParsed, EntriesParsed
<1>3. i \in EntriesOf(cd_files, p) <=> o \div part_size = p
  BY <1>2 DEF EntriesOf
<1> HIDE DEF o
<1>4. PICK k \in Nat : k = o \div part_size /\ k * part_size <= o
                       /\ o < k * part_size + part_size
  BY <1>1, PartBrackets
<1>5. p * part_size \in Nat /\ k * part_size \in Nat /\ part_size \in Nat
  BY PartStart, CdFetchAssumption
<1>6. ASSUME p * part_size <= o, o < p * part_size + part_size PROVE p = k
  <2>1. ~(p < k)
    BY <1>1, <1>4, <1>5, <1>6, PartsApart
  <2>2. ~(k < p)
    BY <1>1, <1>4, <1>5, <1>6, PartsApart
  <2> QED
    BY <2>1, <2>2
<1>7. p = k => p * part_size <= o /\ o < p * part_size + part_size
  BY <1>4
<1> QED
  BY <1>3, <1>4, <1>6, <1>7 DEF o

\* Every part with data has its processor.
LEMMA ProcessorOfPiece ==
  ASSUME Restorable, NEW s \in Pieces
  PROVE  \E p \in Processors : p * part_size <= s.at /\ s.at < p * part_size + part_size
<1>1. s.at \in Nat /\ s.at < central_dir_start
  BY PieceTypes
<1>2. pos \in Nat \ {0} /\ central_dir_start \in Nat /\ central_dir_start + 106 <= pos
  BY ArchiveWritten, DirectoryStarts
<1>3. PICK k \in Nat : k * part_size <= s.at /\ s.at < k * part_size + part_size
  BY <1>1, PartBrackets
<1>4. PICK m \in Nat : m = NumParts(pos) /\ pos <= m * part_size
  BY <1>2, NumPartsCover
<1>5. k < m
  <2>1. k * part_size \in Nat /\ m * part_size \in Nat /\ part_size \in Nat
    BY PartStart, CdFetchAssumption
  <2>2. m < k => m * part_size + part_size <= k * part_size
    BY PartsApart
  <2>3. ~(m < k)
    BY <1>1, <1>2, <1>3, <1>4, <2>1, <2>2
  <2>4. m # k
    BY <1>1, <1>2, <1>3, <1>4, <2>1
  <2> QED
    BY <2>3, <2>4
<1>6. k \in 0..(NumParts(pos) - 1)
  BY <1>4, <1>5
<1> QED
  BY <1>3, <1>6, EntriesParsed

(***************************************************************************)
(* The part's entries whose headers lie before a position: next_entry_idx  *)
(* counts them.                                                            *)
(***************************************************************************)
Seen(p, at) == {i \in EntriesOf(cd_files, p) : cd_files[i].local_header_offset < at}

LEMMA SeenFinite ==
  ASSUME Restorable, NEW p, NEW at
  PROVE  /\ Seen(p, at) \subseteq EntriesOf(cd_files, p)
         /\ EntriesOf(cd_files, p) \subseteq 1..Len(files)
         /\ IsFiniteSet(EntriesOf(cd_files, p)) /\ IsFiniteSet(Seen(p, at))
         /\ Cardinality(EntriesOf(cd_files, p)) \in Nat /\ Cardinality(Seen(p, at)) \in Nat
<1>1. Seen(p, at) \subseteq EntriesOf(cd_files, p)
  BY DEF Seen
<1>2. Directory(cd_files, Len(files))
  BY EntriesParsed
<1>3. EntriesOf(cd_files, p) \subseteq 1..Len(files) /\ IsFiniteSet(EntriesOf(cd_files, p))
  BY <1>2, EntriesFinite
<1>4. IsFiniteSet(Seen(p, at))
  BY <1>1, <1>3, FS_Subset
<1> QED
  BY <1>1, <1>3, <1>4, FS_CardinalityType

\* None are seen at the start of the part,
LEMMA SeenNone ==
  ASSUME Restorable, NEW p \in Processors
  PROVE  Cardinality(Seen(p, p * part_size)) = 0
<1>1. Seen(p, p * part_size) = {}
  <2> SUFFICES ASSUME NEW i \in Seen(p, p * part_size) PROVE FALSE
    OBVIOUS
  <2>1. i \in EntriesOf(cd_files, p) /\ i \in 1..Len(files)
    BY SeenFinite
  <2>2. files[i].local_header_offset < p * part_size
    BY <2>1, EntryParsed DEF Seen
  <2>3. p \in Nat /\ p * part_size \in Nat
    BY PartEnds
  <2>4. p * part_size <= files[i].local_header_offset
    BY <2>1, <2>3, EntryInPart
  <2> QED
    BY <2>1, <2>2, <2>3, <2>4, EntryTypes
<1> QED
  BY <1>1, FS_EmptySet

\* no more within a piece that is not a header,
LEMMA SeenSame ==
  ASSUME Restorable, NEW p, NEW s \in Pieces, s.kind # "LFH", NEW a \in Nat, NEW b \in Nat,
         s.at <= a, a <= b, b <= s.at + s.len
  PROVE  Seen(p, b) = Seen(p, a)
<1> SUFFICES ASSUME NEW i \in EntriesOf(cd_files, p)
             PROVE  cd_files[i].local_header_offset < b <=> cd_files[i].local_header_offset < a
  BY DEF Seen
<1>1. i \in 1..Len(files)
  BY SeenFinite
<1>2. PICK h \in Pieces : h.kind = "LFH" /\ h.at = files[i].local_header_offset
  BY <1>1, EntryHeader
<1>3. cd_files[i].local_header_offset = h.at /\ h.at \in Nat /\ s.at \in Nat /\ s.len \in Nat
  BY <1>1, <1>2, EntryParsed, PieceTypes
<1>4. ~(s.at <= h.at /\ h.at < s.at + s.len)
  BY <1>2, OnePiece
<1> QED
  BY <1>3, <1>4

\* and one more behind a header.
LEMMA SeenOneMore ==
  ASSUME Restorable, NEW p \in Nat, NEW s \in Pieces, NEW i \in EntriesOf(cd_files, p),
         files[i].local_header_offset = s.at
  PROVE  Cardinality(Seen(p, s.at + s.len)) = Cardinality(Seen(p, s.at)) + 1
<1>1. i \in 1..Len(files) /\ IsFiniteSet(Seen(p, s.at))
  BY SeenFinite
<1>2. s.at \in Nat /\ s.len \in Nat \ {0}
  BY PieceTypes
<1>3. ASSUME NEW j \in EntriesOf(cd_files, p)
      PROVE  cd_files[j].local_header_offset < s.at + s.len <=>
               cd_files[j].local_header_offset < s.at \/ j = i
  <2>1. j \in 1..Len(files)
    BY SeenFinite
  <2>2. PICK h \in Pieces : h.at = files[j].local_header_offset
    BY <2>1, EntryHeader
  <2>3. cd_files[j].local_header_offset = h.at /\ h.at \in Nat
    BY <2>1, <2>2, EntryParsed, PieceTypes
  <2>4. s.at <= h.at /\ h.at < s.at + s.len => h = s
    BY OnePiece
  <2>5. h = s => j = i
    BY <1>1, <2>1, <2>2, EntryOffsets
  <2>6. j = i => h.at = s.at
    BY <2>2
  <2> QED
    BY <1>2, <2>3, <2>4, <2>5, <2>6
<1>4. i \notin Seen(p, s.at)
  <2>1. cd_files[i].local_header_offset = s.at
    BY <1>1, EntryParsed
  <2> QED
    BY <1>2, <2>1 DEF Seen
<1>5. Seen(p, s.at + s.len) = Seen(p, s.at) \cup {i}
  BY <1>3 DEF Seen
<1> QED
  BY <1>1, <1>4, <1>5, FS_AddElement

\* The part's next entry is the one whose header starts here.
LEMMA NextEntryHere ==
  ASSUME Restorable, NEW p \in Nat, NEW at \in Nat, NEW i \in EntriesOf(cd_files, p),
         files[i].local_header_offset = at
  PROVE  EntryAt(cd_files, p, Cardinality(Seen(p, at))) = i
<1> DEFINE S == EntriesOf(cd_files, p)
           k == Cardinality(Seen(p, at))
           j == EntryAt(cd_files, p, k)
<1>1. i \in 1..Len(files) /\ Directory(cd_files, Len(files)) /\ k \in Nat
      /\ IsFiniteSet(S) /\ Seen(p, at) \subseteq S /\ S \subseteq 1..Len(files)
      /\ Cardinality(S) \in Nat /\ IsFiniteSet(Seen(p, at))
  BY SeenFinite, EntriesParsed
<1>2. cd_files[i].local_header_offset = at
  BY <1>1, EntryParsed
<1>3. \A x \in S : x \in Nat /\ cd_files[x].local_header_offset \in Nat
  BY <1>1, ArchiveWritten DEF Directory
<1>4. EntriesBefore(cd_files, p, i) = Seen(p, at)
  <2> SUFFICES ASSUME NEW x \in S
               PROVE  SortedBefore(cd_files, x, i) <=> cd_files[x].local_header_offset < at
    BY DEF EntriesBefore, Seen
  <2>1. cd_files[x].local_header_offset = at => x = i
    BY <1>1, <1>2, EntryParsed, EntryOffsets
  <2> QED
    BY <1>2, <1>3, <2>1 DEF SortedBefore
<1>5. k < Cardinality(S)
  <2>1. i \notin Seen(p, at)
    BY <1>2 DEF Seen
  <2>2. Cardinality(Seen(p, at)) <= Cardinality(S)
        /\ (Cardinality(Seen(p, at)) = Cardinality(S) => Seen(p, at) = S)
    BY <1>1, FS_Subset
  <2>3. k # Cardinality(S)
    BY <2>1, <2>2
  <2> HIDE DEF S
  <2> QED
    BY <1>1, <2>2, <2>3
<1>6. j \in S /\ Cardinality(EntriesBefore(cd_files, p, j)) = k
  BY <1>1, <1>5, EntryAtExists
<1>7. Cardinality(EntriesBefore(cd_files, p, i)) = k
  BY <1>4
<1> HIDE DEF S, k, j
<1>8. ~SortedBefore(cd_files, i, j)
  BY <1>1, <1>6, <1>7, MoreBefore DEF S
<1>9. ~SortedBefore(cd_files, j, i)
  BY <1>1, <1>6, <1>7, MoreBefore DEF S
<1>10. i = j
  BY <1>3, <1>6, <1>8, <1>9 DEF SortedBefore, S
<1> QED
  BY <1>10 DEF j, k

\* The entries that are left lie ahead.
LEMMA EntriesLeft ==
  ASSUME Restorable, NEW p \in Nat, NEW at \in Nat
  PROVE  Cardinality(Seen(p, at)) < Cardinality(EntriesOf(cd_files, p)) <=>
           \E i \in EntriesOf(cd_files, p) : at <= files[i].local_header_offset
<1> DEFINE S == EntriesOf(cd_files, p)
           T == Seen(p, at)
<1>1. T \subseteq S /\ S \subseteq 1..Len(files) /\ IsFiniteSet(S) /\ IsFiniteSet(T)
      /\ Cardinality(S) \in Nat /\ Cardinality(T) \in Nat
  BY SeenFinite
<1>2. \A i \in S : i \in T <=> ~(at <= files[i].local_header_offset)
  <2> SUFFICES ASSUME NEW i \in S
               PROVE  i \in T <=> ~(at <= files[i].local_header_offset)
    OBVIOUS
  <2>1. cd_files[i].local_header_offset = files[i].local_header_offset
        /\ files[i].local_header_offset \in Nat
    BY <1>1, EntryParsed, EntryTypes
  <2> QED
    BY <2>1 DEF Seen
<1> HIDE DEF S, T
<1>3. Cardinality(T) <= Cardinality(S) /\ (Cardinality(T) = Cardinality(S) => T = S)
  BY <1>1, FS_Subset
<1>4. Cardinality(T) < Cardinality(S) <=> T # S
  BY <1>1, <1>3
<1>5. T # S <=> \E i \in S : i \notin T
  BY <1>1
<1> QED
  BY <1>2, <1>4, <1>5 DEF S, T

\* A file that build_part_map says continues into a part does so: its
\* Start-of-Part frame begins the part.
LEMMA NamesNotEmpty ==
  ASSUME Restorable, NEW i \in 1..Len(files)
  PROVE  files[i].name_len \in NameLens /\ files[i].name_len >= 1
<1>1. PICK h \in Pieces : h.kind = "LFH" /\ h.len = LfhLen(files[i].name_len)
  BY EntryHeader
<1>2. PICK n \in NameLens : h.len = LfhLen(n)
  BY <1>1, ArchiveWritten DEF Sized
<1>3. n \in Nat \ {0} /\ files[i].name_len \in Nat
  BY WriterAssumption, EntryTypes
<1>4. n = files[i].name_len
  BY <1>1, <1>2, <1>3 DEF LfhLen
<1> QED
  BY <1>3, <1>4

LEMMA Continues ==
  ASSUME Restorable, NEW p \in Processors, ContinuingFile(cd_files, p) # 0,
         NEW i, i = ContinuingFile(cd_files, p)
  PROVE  /\ i \in 1..Len(files) /\ files[i].local_header_offset < p * part_size
         /\ files[i].kind = "file"
         /\ \E s \in Pieces : /\ s.at = p * part_size /\ s.kind = "SOP"
                              /\ s.id = files[i].id
<1> DEFINE spanning == {j \in DOMAIN cd_files :
                          /\ cd_files[j].local_header_offset < p * part_size
                          /\ EstimatedEnd(cd_files[j]) > p * part_size}
<1>1. i = Min(spanning) /\ spanning # {}
  BY DEF ContinuingFile
<1>2. spanning \subseteq Nat
  BY EntriesParsed, ArchiveWritten
<1>3. i \in spanning
  <2> HIDE DEF spanning
  <2> QED
    BY <1>1, <1>2, MinOfNaturals, Zenon
<1>4. /\ i \in 1..Len(files) /\ cd_files[i].local_header_offset < p * part_size
      /\ EstimatedEnd(cd_files[i]) > p * part_size
  BY <1>3, EntriesParsed
<1>5. PICK b \in Nat : b = p * part_size
  BY PartEnds
<1>6. PICK lho \in Nat, n \in Nat, csize \in Nat :
        /\ lho = files[i].local_header_offset /\ n = files[i].name_len /\ n >= 1
        /\ csize = files[i].compressed_size
        /\ lho = cd_files[i].local_header_offset /\ csize = cd_files[i].compressed_size
  BY <1>4, EntryTypes, EntryParsed, NamesNotEmpty
<1>7. EntryEnd(files[i]) = lho + (30 + n + 15) + csize
  BY <1>6 DEF EntryEnd, LfhLen
<1>8. EstimatedEnd(cd_files[i]) = lho + 30 + csize + 16
  BY <1>6, Sizes DEF EstimatedEnd
<1>9. EntryEnd(files[i]) \in Nat /\ b < EntryEnd(files[i]) /\ lho < b
  <2>1. PICK end \in Nat, estimate \in Nat :
          /\ end = EntryEnd(files[i]) /\ estimate = EstimatedEnd(cd_files[i])
          /\ end = lho + (30 + n + 15) + csize /\ estimate = lho + 30 + csize + 16
    BY <1>7, <1>8
  <2>2. b < estimate /\ lho < b
    BY <1>4, <1>5, <1>6, <2>1
  <2>3. estimate <= end
    BY <1>6, <2>1
  <2>4. b < end
    BY <2>2, <2>3
  <2> QED
    BY <2>1, <2>2, <2>4
<1>10. /\ EntryEnd(files[i]) <= central_dir_start
       /\ \A t \in Pieces : t.id > files[i].id => t.at >= EntryEnd(files[i])
  BY <1>4, ArchiveWritten DEF Restorable, ArchiveInv, TileInv, EntriesKept, Kept, Pieces
<1>11. b < central_dir_start
  <2>1. central_dir_start \in Nat
    BY ArchiveWritten
  <2> QED
    BY <1>9, <1>10, <2>1
<1>12. PICK s \in Pieces : s.at = p * part_size /\ s.kind \in {"LFH", "PadLFH", "SOP"}
  BY <1>5, <1>11, PartBegins
<1>13. PICK h \in Pieces : h.kind = "LFH" /\ h.id = files[i].id /\ h.at = lho
  BY <1>4, <1>6, EntryHeader
<1>14. h.at < s.at /\ h.at <= s.at /\ s.id \in Nat /\ h.id \in Nat
  BY <1>5, <1>6, <1>9, <1>12, <1>13, PieceTypes
<1>15. h.id <= s.id
  BY <1>14, IdsInOrder
<1>16. ~(s.id > files[i].id)
  BY <1>5, <1>9, <1>10, <1>12
<1>17. s.id = files[i].id
  BY <1>13, <1>14, <1>15, <1>16
<1>18. s.kind = "SOP"
  <2>1. s.kind \in {"LFH", "PadLFH"} => h.id < s.id
    BY <1>13, <1>14, NothingBeforeHeader
  <2> QED
    BY <1>12, <1>13, <1>14, <1>17, <2>1
<1>19. files[i].kind = "file"
  BY <1>4, <1>17, <1>18, OwnKind
<1> QED
  BY <1>4, <1>5, <1>6, <1>9, <1>12, <1>17, <1>18, <1>19
=============================================================================
