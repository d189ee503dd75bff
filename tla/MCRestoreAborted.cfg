SPECIFICATION RestoreSpec
CONSTANTS
  PART_SIZE = 288
  TAIL_SIZE = 288
  part_size = 288
  MAX32 = 1000
  NameLens = {3}
  TargetLens = {20}
  FrameSizes = {90}
  ReadSizes = {40, 60}
  ZSTD_CHUNK_SIZE = 60
  MaxEntries = 2
  MaxFrames = 2
  ChunkSizes = {288}
  ReadOnlyNames = {}
  Root = FALSE
  FoundModes = {"absent"}
  StaleSize = 0
  RestoreDamaged = TRUE
INVARIANT WritesInPlace
CHECK_DEADLOCK FALSE
