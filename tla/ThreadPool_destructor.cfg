\* The system may stop: every worker is asleep or has returned.
SPECIFICATION FairSpec
CONSTANTS
  w1 = w1
  w2 = w2
  c1 = c1
  x1 = x1
  None = None
  Workers = {w1, w2}
  Clients = {c1}
  Tasks = {x1}
  Capacity = 2
PROPERTIES
  DestructorReturns
CHECK_DEADLOCK FALSE
