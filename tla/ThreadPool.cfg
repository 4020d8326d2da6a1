\* The system may stop: every worker is asleep or has returned.
SPECIFICATION FairSpec
CONSTANTS
  w1 = w1
  w2 = w2
  w3 = w3
  c1 = c1
  x1 = x1
  x2 = x2
  None = None
  Workers = {w1, w2, w3}
  Clients = {c1}
  Tasks = {x1, x2}
  Capacity = 2
INVARIANTS
  EachTaskOnce
  NoLostWakeup
PROPERTIES
  RunsUnlessStopped
CHECK_DEADLOCK FALSE
