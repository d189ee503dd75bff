---------------------------- MODULE BurstFormat ----------------------------
(***************************************************************************)
(* The BURST archive format: sizes of the structures an archive is made    *)
(* of, and the arithmetic of the part boundaries that the writer and the   *)
(* downloader share.  All offsets are byte offsets in the archive.  Only   *)
(* the part size and the 32-bit limit are parameters, so that small        *)
(* instances have many parts and ZIP64 entries; every header keeps the     *)
(* size it has in the code.                                                *)
(***************************************************************************)
EXTENDS Integers

CONSTANTS
  PART_SIZE,  \* BURST_PART_SIZE (8 MiB in the code)
  MAX32       \* 0xFFFFFFFF, the largest value of a 32-bit ZIP field

ASSUME FormatAssumption ==
  /\ PART_SIZE \in Nat \ {0}
  /\ MAX32 \in Nat

BURST_MIN_SKIPPABLE_FRAME_SIZE == 8    \* header of a skippable frame
START_OF_PART_SIZE == 24               \* skippable header + 16 bytes of payload
PADDING_LFH_MIN_SIZE == 44             \* local header + ".burst_padding"
DATA_DESCRIPTOR_SIZE == 16
DATA_DESCRIPTOR_ZIP64_SIZE == 24
UINT16 == 65536                        \* values of a uint16_t
SIZE_T == 1073741824                   \* values of a size_t (2^30 stands for 2^64)

\* Local header, name and Unix extra field of an entry.
LfhLen(name_len) == 30 + name_len + 15

\* Sizes of the records that end the archive: ZIP64 end record, its locator,
\* the end record and the 8-byte BRST comment.
EOCD64_SIZE == 56
LOCATOR_SIZE == 20
EOCD_SIZE == 22 + 8

(***************************************************************************)
(* Boundaries.                                                             *)
(***************************************************************************)

alignment_next_boundary(current_offset) ==
  ((current_offset \div PART_SIZE) + 1) * PART_SIZE

\* Bytes left before the next boundary: PART_SIZE when standing on one.
SpaceUntilBoundary(offset) == alignment_next_boundary(offset) - offset

\* get_data_descriptor_size
DescriptorSize(compressed_size, uncompressed_size) ==
  IF compressed_size > MAX32 \/ uncompressed_size > MAX32
  THEN DATA_DESCRIPTOR_ZIP64_SIZE
  ELSE DATA_DESCRIPTOR_SIZE

(***************************************************************************)
(* A placed structure: its kind, the bytes it occupies, the process_entry  *)
(* call that wrote it (0 for the central directory) and, for frames and    *)
(* Start-of-Part frames, the uncompressed range it stands for.             *)
(***************************************************************************)
Kinds == {"LFH", "PadLFH", "Content", "Frame", "Pad", "SOP", "DD", "CDFH", "End"}

Structures == [kind : Kinds, at : Nat, len : Nat, id : Nat, uoff : Nat, ulen : Nat]

Structure(kind, at, len, id, uoff, ulen) ==
  [kind |-> kind, at |-> at, len |-> len, id |-> id, uoff |-> uoff, ulen |-> ulen]

\* What a reader that starts at a part boundary can begin with.
EntryPoints == {"LFH", "PadLFH", "SOP"}
=============================================================================
