SPECIFICATION FairSpec
CONSTANTS
  Delays = {2, 3}
  MaxAsks = 4
  MaxOver = 1
  MaxLag = 1
  InitGroup = TRUE
  ChildMayEnd = TRUE
INVARIANTS
  TypeOK
  PausedInFull
  ErrorCarried
PROPERTIES
  PokerFollows
  ImplementsContract
  PauseEnds
