SPECIFICATION Spec
CONSTANTS
  i1 = i1
  i2 = i2
  i3 = i3
  t1 = t1
  t2 = t2
  IPs = {i1, i2, i3}
  Watched = i1
  Threads = {t1, t2}
  MaxTrackedIPs = 2
  Burst = 1
  Rate = 1
  CleanupTTL = 2
  Skew = 1
  MaxClock = 3
  MaxEvictions = 1
SYMMETRY MCSymmetry
INVARIANTS
  TypeOK
  TableIsConsistent
  NearlyChronological
  RateHolds
\* The clock ends at MaxClock.
CHECK_DEADLOCK FALSE
