SPECIFICATION Spec
CONSTANTS
  Entry = {e1, e2}
  Session = {s1}
  Endpoint = {x1, x2}
  Timer = {t1}
  Caller = {c1, c2}
  Closer = {k1}
  None = None
  s1 = s1
  x1 = x1
  x2 = x2
  Baseline <- Counts
  Request <- Calls
  Transport = "auto"
  MaxSize = 1
  IdleTimeout = 1
  MaxAge = 1
  MaxGeneration = 1
SYMMETRY Symmetry
PROPERTIES
  AcloseClosesSockets
