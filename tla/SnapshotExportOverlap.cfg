SPECIFICATION Spec
CONSTANTS
  MaxTx = 2
  TxClass = {c1}
  Null = Null
  Absent = Absent
  Runs = {r1, r2}
  BatchSize = 1
  QueueMax = 1
  MaxNow = 2
  Live = {}
SYMMETRY RunSymmetry
INVARIANTS
  CompleteIsFresh
PROPERTIES
  ArchiveMonotone
  KeepsPromise
CHECK_DEADLOCK FALSE
