SPECIFICATION FairSpec
CONSTANTS
  Base = 4
  NUL = NUL
  N = N
  A = A
  P = P
  Client = {a, b}
  NoClient = NoClient
  Registration <- Sample
  Wanted <- EmptyToo
  Room = 3
  MayDie = TRUE
INVARIANTS
  TypeOK
  RequestReadOut
  FreesWhatItAllocates
  EndsForACause
PROPERTIES
  CallsEnd
  ImplementsRemoteCall
