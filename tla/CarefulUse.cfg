SPECIFICATION LateSpec
CONSTANTS
  Path = {p1, p2}
  NoPath = NoPath
  MaxClients = 2
  MaxDirId = 5
  MaxFd = 6
  Careful = TRUE
SYMMETRY PathSymmetry
VIEW WithoutAnswer
CHECK_DEADLOCK FALSE
INVARIANTS
  ExclusiveDescriptors
  DescriptorCovered
  LocksBacked
  OwnerNotRefused
  DirHandleResolves
