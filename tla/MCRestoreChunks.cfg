SPECIFICATION RestoreSpec
CONSTANTS
  PART_SIZE = 288
  TAIL_SIZE = 288
  part_size = 288
  MAX32 = 1000
  NameLens = {3}
  TargetLens = {30}
  FrameSizes = {90, 150}
  ReadSizes = {40, 60}
  ZSTD_CHUNK_SIZE = 60
  MaxEntries = 2
  MaxFrames = 2
  ChunkSizes = {75}
  ReadOnlyNames = {}
  Root = FALSE
  FoundModes = {"absent"}
  StaleSize = 0
  RestoreDamaged = FALSE
INVARIANT FramesRecognized
CHECK_DEADLOCK FALSE
