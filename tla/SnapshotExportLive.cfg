SPECIFICATION Spec
CONSTANTS
  MaxTx = 3
  TxClass = {c1}
  Null = Null
  Absent = Absent
  Runs = {r1, r2}
  BatchSize = 2
  QueueMax = 1
  MaxNow = 1
  Live = {2}
SYMMETRY RunSymmetry
INVARIANTS
  TypeOK
  CheckpointCovers
  CompleteCovers
  ReconciledIsExact
