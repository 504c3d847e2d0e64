CONSTANTS
  N = 3
  Plans <- SamplePlans
  Modes = {"execute", "dry_run", "read_only"}
  MaxUpsets = 1
SPECIFICATION FairSpec
INVARIANTS DependenciesFirst ExecutesOnce OwnDecisionUndisturbed
PROPERTIES InDependencyOrder Settles
CHECK_DEADLOCK FALSE
