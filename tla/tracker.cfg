SPECIFICATION Spec
CONSTANTS
  None = None
  w1 = w1
  w2 = w2
  p1 = p1
  p2 = p2
  p3 = p3
  p4 = p4
  Worker <- MCTwoWorkers
  Object <- MCObjects4
  ReportEvery = 1
  MaxItems = 3
SYMMETRY MCSymmetry2
CHECK_DEADLOCK FALSE
INVARIANTS NoOvercount TurnsLoseNothing NoteKept
PROPERTY StoredMonotone
