SPECIFICATION FairSpec
CONSTANTS
  x1 = x1
  x2 = x2
  x3 = x3
  x4 = x4
  None = None
  Tasks = {x1, x2, x3, x4}
  MaxRounds = 2
  MaxNesting = 2
INVARIANTS
  EachTaskOnce
  InOrder
PROPERTIES
  OneCallPerFrame
  LeftoverRuns
