CONSTANTS
  k1 = k1
  k2 = k2
  m = m
  Nodes <- MCNodes
  Keys = {k1, k2}
  Mutating = m
  NoNode = NoNode
  Mixes <- MCMixes
  MaxRaises = 1
SPECIFICATION FairSpec
INVARIANTS SingleFlight PauseIsVisible
PROPERTIES NodesReturn
CHECK_DEADLOCK FALSE
