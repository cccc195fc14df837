CONSTANTS
    n1 = n1
    n2 = n2
    n3 = n3
    Member = {n1, n2, n3}
    Command = {x}
    None = None
    ElectionTimeout <- EveryTick
    OneInFlight = FALSE
    Elections <- TwoRivals
    MaxLog = 1
SPECIFICATION Spec
CHECK_DEADLOCK FALSE
INVARIANT CommittedOnMajority
