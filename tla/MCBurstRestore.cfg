SPECIFICATION RestoreSpec
CONSTANTS
  PART_SIZE = 288
  TAIL_SIZE = 288
  part_size = 576
  MAX32 = 100
  NameLens = {3, 5}
  TargetLens = {30}
  FrameSizes = {160}
  ReadSizes = {40, 60}
  ZSTD_CHUNK_SIZE = 60
  MaxEntries = 2
  MaxFrames = 2
  ChunkSizes = {75}
  ReadOnlyNames = {3}
  Root = FALSE
  FoundModes = {"absent", "writable", "readonly"}
  StaleSize = 500
  RestoreDamaged = FALSE
PROPERTY EveryPartEnds
INVARIANTS
  RestoreTypeOK
  ParsedAsWritten
  WritesInPlace
  SuccessMeansRestored
  FailuresExplained
CHECK_DEADLOCK FALSE
