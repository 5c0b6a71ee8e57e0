SPECIFICATION Spec
CONSTANTS
  Clients = {c1, c2, c3, c4}
  Versions = {v1, v2}
  Stages = {production}
  Missing = Missing
  Torn = Torn
  Mixed = Mixed
SYMMETRY Symmetry
CHECK_DEADLOCK FALSE
INVARIANTS
  TypeOK
  ArtifactsAreWhole
  StagesAreWhole
