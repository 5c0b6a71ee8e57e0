SPECIFICATION HealthySpec
CONSTANTS
  MaxTx = 1
  TxClass = {c1}
  Null = Null
  Absent = Absent
  Runs = {r1, r2}
  BatchSize = 1
  QueueMax = 1
  MaxNow = 2
  Live = {}
PROPERTIES
  ResumeOfCompleteIsNoOp
CHECK_DEADLOCK FALSE
