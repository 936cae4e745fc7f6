CONSTANTS
  p1 = p1
  p2 = p2
  p3 = p3
  c1 = c1
  a1 = a1
  a2 = a2
  Nobody = Nobody
  Calls = {p1, p2, p3}
  Cases = {c1}
  Agents = {a1, a2}
  Ops = {"drain", "claim", "assign", "transfer", "complete", "cancel", "disable"}
  Queued = {{}, {c1}}
  Cap = 1
  Serial = FALSE
  CanFail = FALSE
SPECIFICATION Spec
SYMMETRY Symmetry
INVARIANTS HumansWithoutAutomation
PROPERTIES ClosedStaysClosed
CHECK_DEADLOCK FALSE
