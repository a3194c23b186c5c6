SPECIFICATION FairSpec
CONSTANTS
  Sizes <- MCSizes
  BufSize = 2
  NumBuffers = 2
  MaxChunk = 2
  MaxAttempts = 3
INVARIANTS
  EachGetsItsOwn
  ImagesAreWhole
PROPERTY Ends
CHECK_DEADLOCK FALSE
