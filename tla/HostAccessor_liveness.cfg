\* The system may stop: every request was issued and settled, every handle destroyed.
SPECIFICATION FairSpec
CONSTANTS
  m = m
  t1 = t1
  a1 = a1
  r1 = r1
  r2 = r2
  None = None
  Main = m
  Threads = {m, t1}
  Accessors = {a1}
  Requests = {r1, r2}
  Hosts <- AnyHost
PROPERTIES
  ImplementsLifecycle
  DeadAccessorSettles
CHECK_DEADLOCK FALSE
