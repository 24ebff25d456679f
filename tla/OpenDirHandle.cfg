SPECIFICATION SystemSpec
CONSTANTS
  Path = {p1}
  NoPath = NoPath
  MaxClients = 2
  MaxDirId = 3
  MaxFd = 6
  Careful = TRUE
  Proc = {a, b}
  NoProc = NoProc
  Budget = 2
  Ops = {"opendir"}
  MayDie = FALSE
  Garbage = FALSE
  AtATime = 2
  Follows <- AnyOrder
SYMMETRY Symmetry
CHECK_DEADLOCK FALSE
INVARIANT
  OpenDirIsOpen
