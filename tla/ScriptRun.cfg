SPECIFICATION FairSpec
CONSTANTS
  Scripts <- MCScripts
  MaxThreads = 2
  Codes = {501}
  None = 1000
  MaxProgress = 1
INVARIANTS
  RetryIsKept
  NeverBroken
  SuccessIsEarned
PROPERTIES
  RunsInOrder
  Ends
CHECK_DEADLOCK FALSE
