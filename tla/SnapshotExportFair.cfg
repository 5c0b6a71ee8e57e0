SPECIFICATION FairSpec
CONSTANTS
  MaxTx = 3
  TxClass = {c1}
  Null = Null
  Absent = Absent
  Runs = {r1}
  BatchSize = 1
  QueueMax = 1
  MaxNow = 1
  Live = {2}
PROPERTIES
  DeadlineEnds
  QueueDrains
