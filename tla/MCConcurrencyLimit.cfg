SPECIFICATION Spec
CONSTANTS
  a1 = a1
  a2 = a2
  a3 = a3
  b1 = b1
  b2 = b2
  c1 = c1
  h1 = h1
  a = a
  b = b
  c = c
  Reqs = {a1, a2, a3, b1, b2, c1, h1}
  Monitoring = {h1}
  Sources = {a, b, c}
  SourceOf <- MCSourceOf
  Limit = 2
  PerIPShare = 2
INVARIANTS
  LimitsHold
  NothingLeaks
  SaturationTakesManySources
PROPERTY
  WaitIsBounded
