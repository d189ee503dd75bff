SPECIFICATION Spec
CONSTANTS
  part_size = 8
  TAIL_SIZE = 4
  max_concurrent = 2
  ArchiveSizes <- TailOrSeveralParts
INVARIANTS
  TypeOK
  TailIsComplete
  DirectoryInMemory
  OneBodySegment
  AllDataRestored
  BytesInPlace
PROPERTIES
  RangesAllOrError
  EventuallyReturns
CHECK_DEADLOCK FALSE
