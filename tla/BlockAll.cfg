SPECIFICATION FairSpec
CONSTANTS
  Blocks = {0, 1, 2, 3, 4, 5, 6, 7}
  h1 = h1
  h2 = h2
  h3 = h3
  h4 = h4
  Hashes = {h1, h2, h3, h4}
  Commands <- MCAll
  NoCmd = NoCmd
  Cut = Cut
  MaxStops = 3
INVARIANTS
  DoneIsComplete
  ResumePointIsTrue
PROPERTIES
  NoGoingBack
  Completes
