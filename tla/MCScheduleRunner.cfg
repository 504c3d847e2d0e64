CONSTANTS
  a = a
  b = b
  Workers = {w1, w2}
  Schedules = {a, b}
  Broken <- MCBroken
  Created <- MCCreated
  Periods = {1, 2}
  MaxTime = 2
  Upsets <- MCUpsets
SYMMETRY Processes
SPECIFICATION Spec
INVARIANTS SlotHeldOnce LaunchedIsClaimed FailuresFiled OverlapRespected
PROPERTIES NothingLeftDue
CHECK_DEADLOCK FALSE
