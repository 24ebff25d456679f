SPECIFICATION LiveSpec
CONSTANTS
  Path = {p1, p2}
  NoPath = NoPath
  MaxClients = 2
  MaxDirId = 3
  MaxFd = 7
  Careful = TRUE
  Proc = {a, b}
  NoProc = NoProc
  Budget = 2
  Ops = {"open"}
  MayDie = FALSE
  Garbage = FALSE
  AtATime = 2
  Follows <- InOrder
CHECK_DEADLOCK FALSE
PROPERTY
  CallsReturn
