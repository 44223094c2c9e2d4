SPECIFICATION Spec
CONSTANTS
  w1 = w1
  w2 = w2
  w3 = w3
  Writers = {w1, w2, w3}
  Tasks = {"t1", "t2"}
  Readers = {"r1"}
  Requests <- AnyLimit
  DefaultEventLimit = 2
  MaxEventLimit = 3
  PassesLastSeq = FALSE
  MaxAppends = 2
  MaxSeq = 3
SYMMETRY WriterSymmetry
CHECK_DEADLOCK FALSE
INVARIANTS
  CursorMissesNothing
  LockersNeverDeadlock
PROPERTIES
  ReadsNothingTwice
