\* The system may stop: every request was issued and settled, every handle destroyed.
SPECIFICATION Spec
CONSTANTS
  m = m
  a1 = a1
  r1 = r1
  None = None
  Main = m
  Threads = {m}
  Accessors = {a1}
  Requests = {r1}
  Hosts <- Default
PROPERTIES
  NoBeginAfterCancel
CHECK_DEADLOCK FALSE
