SPECIFICATION Spec
CONSTANTS
  MaxTx = 2
  c1 = c1
  c2 = c2
  TxClass = {c1, c2}
  Null = Null
  Absent = Absent
  Runs = {r1, r2}
  Snaps = {1, 2}
  Instants = {1, 2}
  Graphs <- MCGraphs
  Archives <- MCArchives
  Exports <- MCExports
  BatchSize = 1
  ChunkSize = 1
  QueueMax = 1
  Live = {1}
SYMMETRY RunSymmetry
INVARIANTS
  TypeOK
  ClassHasItsStamp
  RestoreCovers
  RoundTrip
