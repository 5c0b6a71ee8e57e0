SPECIFICATION Spec
CONSTANTS
  s1 = s1
  s2 = s2
  Streams = {s1, s2}
  Seconds = {1, 2}
  StreamRows = 2
  Recency = 1
  MaxOutEdges = 1
  Sizes = {1, 2}
  RowsBisect = 2
  Levels = {1, 2}
  RowsLevel = 2
  MaxStart = 4
  LiveTxs <- MCLiveTxs
  LiveCalls = 3
  Txs <- MCTxs
  MaxFaults = 2
  Casts <- MCCasts
SYMMETRY StreamSymmetry
CHECK_DEADLOCK FALSE
INVARIANTS
  TypeOK
  OneNodePerTx
  CountedIsWritten
  NoHollowNode
  SentIsWritten
  WinnerWroteAll
