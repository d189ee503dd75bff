SPECIFICATION Spec
CONSTANTS
  part_size = 2
  TAIL_SIZE = 2
  max_concurrent = 2
  ArchiveSizes <- Sizes
INVARIANT SuccessMeansAllParts
CHECK_DEADLOCK FALSE
