SPECIFICATION Spec
CONSTANTS
  c1 = c1
  r1 = r1
  r2 = r2
  v1 = v1
  w1 = w1
  Runs = {r1}
  Cancels = {c1}
  Recovers = {v1}
  Removers = {w1}
  SameProcess <- OneProcess
  MaxRetries = 1
  CleanupOnSuccess = TRUE
  ExpectFailOnBase = TRUE
  Deletes = TRUE
  Interrupts = FALSE
  Stalls = TRUE
  MaxCrashes = 0
  MaxFaults = 0
CHECK_DEADLOCK FALSE
INVARIANTS
  RemovedIsGone
PROPERTIES
  RunsDeleteNoRecordedWork
