SPECIFICATION MixedSpec
CONSTANTS
  Path = {p1, p2}
  NoPath = NoPath
  MaxClients = 2
  MaxDirId = 3
  MaxFd = 6
  Careful = TRUE
  Proc = {a, b}
  NoProc = NoProc
  Budget = 2
  Ops = {"open", "write", "opendir", "readdir", "read", "remove", "unmount"}
  MayDie = FALSE
  Garbage = TRUE
  AtATime = 2
  Follows <- AnyOrder
SYMMETRY Symmetry
VIEW WithoutOldAnswer
CHECK_DEADLOCK FALSE
INVARIANTS
  QuietMeansUnlocked
  EndsForACause
