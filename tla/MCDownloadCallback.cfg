SPECIFICATION Spec
CONSTANTS
  part_size = 2
  TAIL_SIZE = 2
  max_concurrent = 2
  ArchiveSizes <- Sizes
INVARIANT NoCallbackAfterReturn
CHECK_DEADLOCK FALSE
