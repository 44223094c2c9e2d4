SPECIFICATION Spec
CONSTANTS
  c1 = c1
  r1 = r1
  r2 = r2
  v1 = v1
  w1 = w1
  Runs = {r1, r2}
  Cancels = {c1}
  Recovers = {v1}
  Removers = {}
  SameProcess <- NoSharing
  MaxRetries = 1
  CleanupOnSuccess = TRUE
  ExpectFailOnBase = FALSE
  Deletes = TRUE
  Interrupts = TRUE
  Stalls = FALSE
  MaxCrashes = 1
  MaxFaults = 1
SYMMETRY RunSymmetry
CHECK_DEADLOCK FALSE
INVARIANTS
  OneOpenAttempt
  RetryBudget
  SuccessIsVerified
  NoUndeclaredDelivery
  WorktreeRowsTrue
PROPERTIES
  RowSpec
