SPECIFICATION Spec
CONSTANTS
  MaxPieces = 5
  Names <- MCNames
  Mounts <- MCMounts
  UpDir <- MCUpDir
  Slash <- MCSlash
  Char <- MCChar
  NUL = "NUL"
  Junk = "?"
  NULL = NULL
INVARIANTS ReplacesEveryOccurrence HeadSplitsTheString MountNameBecomesAlias
PROPERTIES SearchesLess StaysInBlock
CHECK_DEADLOCK FALSE
