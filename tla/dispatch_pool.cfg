CONSTANTS
  p1 = p1
  p2 = p2
  p3 = p3
  c1 = c1
  c2 = c2
  a1 = a1
  a2 = a2
  Nobody = Nobody
  Calls = {p1, p2, p3}
  Cases = {c1, c2}
  Agents = {a1, a2}
  Ops = {"drain", "complete"}
  Queued = {{c1, c2}}
  Cap = 1
  Serial = TRUE
  CanFail = FALSE
SPECIFICATION FairSpec
PROPERTIES ImplementsPool
CHECK_DEADLOCK FALSE
