SPECIFICATION Spec
CONSTANTS
  none = none
  None = none
  Digit <- MCDigit
  Plans <- MCPlans
  Mutating = {"send"}
  Generated = {"s3_read", "send"}
  MaxReplan = 1
  Reviewers = {TRUE, FALSE}
  Resumes = 2
INVARIANTS NoApproachRepeated CompletedIsVerified LedgerTrue
CHECK_DEADLOCK FALSE
