SPECIFICATION FairSpec
CONSTANTS
  p1 = p1
  p2 = p2
  p3 = p3
  p4 = p4
  None = None
  Proc = {p1, p2, p3, p4}
  Regime <- Undisturbed
INVARIANTS Exclusive HolderOnDisk
PROPERTIES LockUsable
CHECK_DEADLOCK FALSE
