SPECIFICATION Spec
CONSTANTS
  n1 = n1
  n2 = n2
  n3 = n3
  worker1 = worker1
  worker2 = worker2
  stage1 = stage1
  hash1 = hash1
  hash2 = hash2
  job1 = job1
  None = None
INVARIANTS NeverPanics Replayed NothingCommittedLost CommitBeforeDispatch
PROPERTIES RedispatchOnlyVoided LeaderEmerges CommitsSpread
CHECK_DEADLOCK FALSE
