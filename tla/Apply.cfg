SPECIFICATION Spec
CONSTANTS
  a1 = a1
  a2 = a2
  Tasks = {"t1"}
  Branches = {"main", "dev"}
  Callers = {a1, a2}
  PriorEvents = 1
  EventLimit = 20
  SwitchesMidway = FALSE
  MaxCalls = 7
  MaxBreaks = 1
SYMMETRY CallerSymmetry
CHECK_DEADLOCK FALSE
INVARIANTS
  HistoryAlternates
  HistoryIsTrue
