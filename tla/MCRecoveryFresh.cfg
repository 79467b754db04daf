SPECIFICATION Spec
CONSTANTS
  Entry = {e1, e2}
  Session = {s1}
  Endpoint = {x1, x2}
  Timer = {t1}
  Caller = {c1, c2}
  None = None
  s1 = s1
  x1 = x1
  x2 = x2
  k1 = k1
  k2 = k2
  ext = ext
  u1 = u1
  u2 = u2
  o1 = o1
  o2 = o2
  Baseline <- Baselines
  Request <- Continuing
  Output <- OneOutput
  Transport = "auto"
  MaxSize = 1
  IdleTimeout = 1
  MaxAge = 2
  MaxGeneration = 2
SYMMETRY Symmetry
INVARIANTS
  RecoveryIsFresh
