SPECIFICATION Spec
CONSTANTS
  Path = {p1, p2}
  NoPath = NoPath
  MaxClients = 2
  MaxDirId = 3
  MaxFd = 5
  Careful = FALSE
SYMMETRY PathSymmetry
CHECK_DEADLOCK FALSE
INVARIANTS
  TypeOK
  OneRecordPerPath
PROPERTIES
  ImplementsPathLock
