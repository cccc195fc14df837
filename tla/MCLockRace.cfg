SPECIFICATION Spec
CONSTANTS
  p1 = p1
  p2 = p2
  p3 = p3
  p4 = p4
  None = None
  Proc = {p1, p2, p3}
  Regime <- Disturbed
INVARIANTS Exclusive
CHECK_DEADLOCK FALSE
