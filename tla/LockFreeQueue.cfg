SPECIFICATION Spec
CONSTANTS
  t1 = t1
  t2 = t2
  t3 = t3
  x1 = x1
  x2 = x2
  x3 = x3
  x4 = x4
  x5 = x5
  Empty = Empty
  Threads = {t1, t2, t3}
  Tasks = {x1, x2, x3, x4, x5}
  Capacity = 2
SYMMETRY Symmetry
INVARIANTS
  CellsExclusive
  ExactlyOnce
PROPERTIES
  HonestRefusal
  ImplementsFifo
