SPECIFICATION DelegationSpec
CONSTANTS
  Steps = {s1, s2, s3}
  Loop = loop
  Agents = {"reader", "writer"}
  AgentTools <- MCAgentTools
  Tools = {"query", "chart", "post"}
  ReadOnlyTools = {"query", "chart"}
  Objectives = {"asked", "part"}
  Supervise = "supervise"
  Asked = "asked"
  Ceilings = {2, 3}
  MaxIterations = 3
  StallThreshold = 2
  MaxConcurrency = 1
  MaxChildren = 2
  MaxDepth = 1
  MaxAttempts = 2
  MaxTrees = 3
  MaxJudged = 2
  MaxEntries = 2
INVARIANTS OnlyReads LimitsAreShared AcceptedIsReviewed StopReasonTrue
CHECK_DEADLOCK FALSE
SYMMETRY MCSymmetry
