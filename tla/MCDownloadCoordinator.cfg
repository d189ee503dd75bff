SPECIFICATION Spec
CONSTANTS
  part_size = 2
  TAIL_SIZE = 2
  max_concurrent = 2
  ArchiveSizes <- Sizes
INVARIANTS
  TypeOK
  InFlightIsExact
  SuccessMeansAllParts
  EveryRequestFinished
PROPERTIES
  PartsAllOrError
  EventuallyReturns
CHECK_DEADLOCK FALSE
