SPECIFICATION Spec
CONSTANTS
  n1 = n1
  n2 = n2
  n3 = n3
  worker1 = worker1
  worker2 = worker2
  stage1 = stage1
  hash1 = hash1
  hash2 = hash2
  job1 = job1
  None = None
CHECK_DEADLOCK FALSE
INVARIANTS NoDoubleDispatch
