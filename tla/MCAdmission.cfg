SPECIFICATION FairSpec
CONSTANTS
  t1 = t1
  t2 = t2
  t3 = t3
  other = other
  net = net
  disk = disk
  None = None
  Task = {t1, t2, t3}
  Resource = {net, disk}
  Device = 4
  Vram <- Mixed
  Limit <- LimitOf
  Rank <- RankOf
  Budget = 3
  Crowd <- Crowds
INVARIANTS GrantExact PermitsKept
PROPERTIES AllAdmitted
CHECK_DEADLOCK FALSE
