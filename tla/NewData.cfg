SPECIFICATION FairSpec
CONSTANTS
  Cmds <- MCCmds
  DataSize = 8
  MaxChunk = 4
INVARIANTS
  DeliversInOrder
  WriterIsHeld
PROPERTY Ends
