CONSTANTS
  NSteps = 2
  Frail = {0}
  Plans <- MCPlans
  Driver = driver
  Operators = {o1, o2}
  NoOne = NoOne
  MaxReplans = 1
  Stops <- MCStops
  MaxUpsets = 1
SYMMETRY Requests
SPECIFICATION Spec
INVARIANTS ExecutionsPaid OwnDecision PausedIsAnswerable NeverStranded
CHECK_DEADLOCK FALSE
