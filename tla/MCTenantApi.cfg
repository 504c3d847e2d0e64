CONSTANTS
  Tenants = {ta, tb}
  Watched = ta
  DefaultTenant = ta
  Areas = {"dashboard", "schedule", "task", "artifact", "conversation", "memory", "skill", "admin"}
  MaxRows = 3
  Documents <- MCDocuments
  None = None
SPECIFICATION Spec
INVARIANTS OthersUnseen WithinRights
CHECK_DEADLOCK FALSE
