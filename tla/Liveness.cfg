SPECIFICATION FairSpec
CONSTANTS
  c1 = c1
  r1 = r1
  r2 = r2
  v1 = v1
  w1 = w1
  Runs = {r1, r2}
  Cancels = {c1}
  Recovers = {v1}
  Removers = {}
  SameProcess <- NoSharing
  MaxRetries = 1
  CleanupOnSuccess = FALSE
  ExpectFailOnBase = FALSE
  Deletes = FALSE
  Interrupts = FALSE
  Stalls = FALSE
  MaxCrashes = 1
  MaxFaults = 0
CHECK_DEADLOCK FALSE
PROPERTIES
  CancelledRunsStop
  NoTaskStuck
