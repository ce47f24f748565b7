SPECIFICATION Spec
CONSTANTS
  p1 = p1
  p2 = p2
  Processes = {p1, p2}
INVARIANT
  RemovesOnlyItsOwn
\* Both processes end.
CHECK_DEADLOCK FALSE
