SPECIFICATION Spec
CONSTANTS
  Slaves = {s1, s2}
  Volumes = {v1, v2}
  Mortal = {s1, s2}
  None = none
  MaxUuids = 3
CONSTRAINT Bounded
SYMMETRY Symmetry
INVARIANTS
  TypeOK
  ConnectedMeansRead
  SlaveRaises
  MasterRaises
CHECK_DEADLOCK FALSE
