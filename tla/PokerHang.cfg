SPECIFICATION FairSpec
CONSTANTS
  Delays = {2, 3}
  MaxAsks = 3
  MaxOver = 1
  MaxLag = 1
  InitGroup = TRUE
  ChildMayEnd = TRUE
PROPERTIES
  FifoThreadExits
