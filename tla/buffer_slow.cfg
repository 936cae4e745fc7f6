CONSTANTS
  m1 = m1
  m2 = m2
  Messages = {m1, m2}
  MaxEdits = 1
  MaxReq = 5
  Slow = TRUE
  Faults = {}
SPECIFICATION FairSpec
INVARIANTS Conservation NoStrandedList
PROPERTIES ImplementsInbox
CHECK_DEADLOCK FALSE
