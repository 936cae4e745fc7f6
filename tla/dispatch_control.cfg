CONSTANTS
  p1 = p1
  p2 = p2
  c1 = c1
  a1 = a1
  a2 = a2
  Nobody = Nobody
  Calls = {p1, p2}
  Cases = {c1}
  Agents = {a1, a2}
  Ops = {"advance", "claim"}
  Queued = {{}}
  Cap = 1
  Serial = FALSE
  CanFail = FALSE
SPECIFICATION Spec
SYMMETRY Symmetry
PROPERTIES HumanKeepsControl
CHECK_DEADLOCK FALSE
