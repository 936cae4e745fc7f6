CONSTANTS
  m1 = m1
  m2 = m2
  Messages = {m1, m2}
  MaxEdits = 1
  MaxReq = 5
  Slow = FALSE
  Faults = {"restart", "redis", "database"}
SPECIFICATION Spec
SYMMETRY Symmetry
INVARIANTS SerialFlush AtMostOnceInOrder
CHECK_DEADLOCK FALSE
