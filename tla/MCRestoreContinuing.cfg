SPECIFICATION RestoreSpec
CONSTANTS
  PART_SIZE = 192
  TAIL_SIZE = 192
  part_size = 192
  MAX32 = 1000
  NameLens = {60}
  TargetLens = {20}
  FrameSizes = {30, 90}
  ReadSizes = {40, 60}
  ZSTD_CHUNK_SIZE = 60
  MaxEntries = 1
  MaxFrames = 3
  ChunkSizes = {192}
  ReadOnlyNames = {}
  Root = FALSE
  FoundModes = {"absent"}
  StaleSize = 0
  RestoreDamaged = FALSE
INVARIANT SuccessMeansRestored
CHECK_DEADLOCK FALSE
