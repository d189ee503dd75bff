SPECIFICATION Spec
CONSTANTS
  part_size = 2
  TAIL_SIZE = 2
  max_concurrent = 2
  ArchiveSizes <- Sizes
INVARIANTS
  TypeOK
  InFlightIsExact
  EarlyPartsAreKnown
  NoWorkStranded
PROPERTY
  EventuallyReturns
CHECK_DEADLOCK FALSE
