SPECIFICATION FairSpec
CONSTANTS
  Entry = {e1, e2}
  Session = {s1, s2}
  Endpoint = {x1, x2}
  Timer = {t1, t2, t3}
  Caller = {c1, c2}
  Baseline = {b1}
  None = None
  MaxSize = 1
  IdleTimeout = 1
  MaxAge = 2
  MaxGeneration = 2
INVARIANTS
  TypeOK LeaseExclusive BusyMeansHeld IndexesAgree IdleIsReusable IdleIsTimed
  Capacity RemovedHoldsNoHistory IInv
PROPERTIES
  NeverExpiredEarly BusyNeverEvicted OneShotIsDropped IdleEnds
