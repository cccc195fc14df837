SPECIFICATION Spec
CONSTANTS
  MaxAttempts = 2
  MaxSteps = 3
  Setup <- Tight
PROPERTY LagKillsOwnAttempt
CHECK_DEADLOCK FALSE
