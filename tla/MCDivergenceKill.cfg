SPECIFICATION Spec
CONSTANTS
  MaxAttempts = 3
  MaxSteps = 3
  Setup <- AnyRing
INVARIANTS KillRecorded NotWedged
PROPERTY KillsOwnAttempt
CHECK_DEADLOCK FALSE
