SPECIFICATION FairSpec
CONSTANTS
  Plans <- ThreePlans
  MAX_RUNTIME_SPAWNS = 3
INVARIANTS TypeOK Accounted SingleFlight RunsOnInputs CancelIsCallers ComputedOnce PrunedNeverRuns
PROPERTIES Returns
