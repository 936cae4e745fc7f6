SPECIFICATION Spec
CONSTANTS
  p1 = p1
  p2 = p2
  p3 = p3
  p4 = p4
  Recipients = {r1, r2}
  BatchSize = 2
  Ticks = {w1, w2}
  Calls = {p1, p2, p3}
  Roles <- AnyHandler
  Faults = {"crash", "database", "answer"}
SYMMETRY Symmetry
CHECK_DEADLOCK FALSE
INVARIANTS TypeOK SentOnce SuspensionStops
