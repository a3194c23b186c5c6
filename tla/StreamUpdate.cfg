SPECIFICATION FairSpec
CONSTANTS
  Files <- MCFiles
  Zips <- MCZips
  Chunks <- MCChunks
  MaxBuf = 96
INVARIANTS
  CommandsInOrder
  ResultIsTrue
  ClosedAtTheEnd
PROPERTY Ends
CHECK_DEADLOCK FALSE
