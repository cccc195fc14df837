SPECIFICATION PlanSpec
CONSTANTS
  w1 = w1
  w2 = w2
  same = same
  other = other
  job = job
  None = None
  Job = {job, other}
  Worker = {w1, w2}
  WorkerId <- OneName
  Priority <- Urgent
  MaxClaims = 3
  Faults = {"request", "input", "store"}
INVARIANTS SubmitTypeOK OnePlace NoStaleResult BilledOnce OwnershipFresh SuccessIsCommitted NothingLeftBehind
PROPERTIES Contract QueueResolves SubmitReturns
