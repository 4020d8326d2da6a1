\* The system may stop: every request was issued and settled, every handle destroyed.
SPECIFICATION Spec
CONSTANTS
  m = m
  t1 = t1
  t2 = t2
  a1 = a1
  r1 = r1
  r2 = r2
  None = None
  Main = m
  Threads = {m, t1, t2}
  Accessors = {a1}
  Requests = {r1, r2}
  Hosts <- AnyHost
SYMMETRY Symmetry
INVARIANTS
  OneHolder
  ResolveOnceAfterResponse
  AckMeansAnswered
  InFlightAgrees
  DestroyedSettled
PROPERTIES
  SettledOnce
  CancelledOnce
  QuietAfterDestroy
CHECK_DEADLOCK FALSE
