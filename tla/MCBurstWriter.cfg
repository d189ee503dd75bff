SPECIFICATION Spec
CONSTANTS
  PART_SIZE = 192
  MAX32 = 100
  NameLens <- Names
  TargetLens <- Targets
  FrameSizes <- Frames
  ReadSizes <- Reads
  ZSTD_CHUNK_SIZE = 2
  MaxEntries = 2
  MaxFrames = 3
INVARIANTS
  TypeOK
  AlignmentRule
  NoStructureCutByBoundary
  StartOfPartOffsets
  RoomForNextHeader
  EntriesLocateData
  FirstCdfhInTail
CHECK_DEADLOCK FALSE
