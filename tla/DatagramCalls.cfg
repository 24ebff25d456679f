SPECIFICATION FairSpec
CONSTANTS
  Base = 4
  NUL = NUL
  Junk = Junk
  Client = {a, b}
  Port = {1, 2}
  NoPort = 0
  Registration <- Sample
  Wanted <- SampleCalls
  MaxCalls = 2
  MaxCopies = 1
  Lossy = TRUE
  MayDie = TRUE
  Unset <- Garbage
CHECK_DEADLOCK FALSE
INVARIANTS
  TypeOK
  AnswerIsOwn
PROPERTIES
  AtMostOnce
  CallsReturn
