CONSTANTS
  Callers = {c1, c2}
  Retriers = {c1}
  MaxAttempts = 2
  Threshold = 2
  MaxCalls = 1
  MaxResends = 1
  Connectors <- MCConnectors
SPECIFICATION FairSpecCalls
INVARIANTS OneTrial ReadOnlyHolds ErrorsTrue
PROPERTIES Recovers
CHECK_DEADLOCK FALSE
