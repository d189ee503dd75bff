SPECIFICATION Spec
CONSTANTS
  part_size = 8
  TAIL_SIZE = 4
  max_concurrent = 2
  ArchiveSizes <- OneLargePart
INVARIANT ContextOutlivesRequest
CHECK_DEADLOCK FALSE
