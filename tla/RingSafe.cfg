SPECIFICATION FairSpec
CONSTANTS
  Data = {a, b}
  Num = 4
INVARIANTS
  IInv
  NoLostWakeup
PROPERTIES
  IsFifo
  WaitEnds
