CONSTANTS
  p1 = p1
  p2 = p2
  p3 = p3
  c1 = c1
  c2 = c2
  a1 = a1
  Nobody = Nobody
  Calls = {p1, p2, p3}
  Cases = {c1, c2}
  Agents = {a1}
  Ops = {"escalate", "advance", "drain", "complete"}
  Queued = {{}}
  Cap = 1
  Serial = TRUE
  CanFail = FALSE
SPECIFICATION Spec
SYMMETRY Symmetry
INVARIANTS CapRespected NoIdleSlotAtRest QueueAgrees
CHECK_DEADLOCK FALSE
