SPECIFICATION Spec
CONSTANTS
  MaxTx = 4
  ChunkSize = 2
  SampleLimit = 1
CHECK_DEADLOCK FALSE
INVARIANTS
  TypeOK
  DiffBounds
  CountsAreIds
  SamplesAreLowest
