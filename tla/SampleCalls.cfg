SPECIFICATION Spec
CONSTANTS
  Base = 4
  NUL = NUL
  Letter = {x, y}
  maxarsize = 3
  maxslen = 2
  Reduced = TRUE
INVARIANTS
  TypeOK
  ReturnsThemSorted
  ConcatIsString
