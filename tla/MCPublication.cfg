SPECIFICATION Spec
CONSTANTS
  Tenants = {t1, t2}
  Requests = {r1, r2}
  Codes = {c1, c2}
  Documents = {d1}
  Manifests = {m1}
  Flagged = {m1}
  None = None
  GateSettings = {TRUE, FALSE}
  MaxAttempts = 2
  MaxRequests = 3
  MaxSyntheses = 2
  MaxRestarts = 1
SYMMETRY Symmetric
INVARIANTS NothingUnvalidated OnlyReviewedBytes OwnTenantDecided ApprovedIsLoaded
CHECK_DEADLOCK FALSE
