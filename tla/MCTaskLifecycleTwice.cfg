CONSTANTS
  NSteps = 2
  Frail = {0}
  Plans <- MCPlans
  Driver = driver
  Operators = {o1, o2}
  NoOne = NoOne
  MaxReplans = 1
  Stops <- MCStops
  MaxUpsets = 1
SPECIFICATION Spec
INVARIANT ExecutesOnce
CHECK_DEADLOCK FALSE
