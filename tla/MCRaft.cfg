CONSTANTS
    n1 = n1
    n2 = n2
    n3 = n3
    Member = {n1, n2, n3}
    Command = {x}
    None = None
    ElectionTimeout <- EveryTick
    OneInFlight = TRUE
    Elections <- Rivalry
    MaxLog = 2
SPECIFICATION Spec
CHECK_DEADLOCK FALSE
INVARIANTS TypeOK ElectionSafety LogMatching SafeWhileAcksTrue
PROPERTIES VoteKept LeaderAppendOnly
CONSTRAINT Explored
