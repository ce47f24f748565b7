SPECIFICATION ForgetSpec
CONSTANTS
  p1 = p1
  p2 = p2
  a1 = a1
  a2 = a2
  k1 = k1
  Instances = {p1, p2}
  Pairs = {k1, k2, k3, k4, k5, k6}
  Algorithms = {a1, a2}
  Algo <- MCAlgo
  NoBundle = NoBundle
  NoPair = NoPair
  Imported = {}
  MaxFaults = 1
INVARIANT
  OneBundleEver
\* Once every instance serves and no fault is left, nothing happens any more.
CHECK_DEADLOCK FALSE
