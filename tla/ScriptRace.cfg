SPECIFICATION Spec
CONSTANTS
  Scripts <- MCScripts
  MaxThreads = 2
  Codes = {501}
  None = 1000
  MaxProgress = 1
INVARIANT FailureIsReturned
CHECK_DEADLOCK FALSE
