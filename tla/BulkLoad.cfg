SPECIFICATION Spec
CONSTANTS
  Runs = {r1, r2, r3}
  Scripts = {"full", "parallel", "loadcsv"}
  NodeRows = 4
  EdgeRows = 3
  Ends <- MCEnds
  BatchSize = 2
  Workers = 2
SYMMETRY RunSymmetry
CHECK_DEADLOCK FALSE
INVARIANTS
  TypeOK
  LoadedOnce
  HolesAreAnalytical
