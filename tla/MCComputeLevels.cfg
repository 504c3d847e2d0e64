CONSTANTS
  N = 3
  Inputs <- MCInputs
SPECIFICATION LevelsSpec
INVARIANTS VerdictMatchesReference
PROPERTIES Terminates
CHECK_DEADLOCK FALSE
