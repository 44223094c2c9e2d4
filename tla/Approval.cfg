SPECIFICATION Spec
CONSTANTS
  d1 = d1
  d2 = d2
  r1 = r1
  r2 = r2
  r3 = r3
  Runs = {r1, r2, r3}
  Deciders = {d1, d2}
  TaskRequires = FALSE
  MaxRetries = 1
  Cancelling = TRUE
  MaxToggles = 2
SYMMETRY RunAndDeciderSymmetry
CHECK_DEADLOCK FALSE
INVARIANTS
  WaitingHasRequest
  DecisionsBind
