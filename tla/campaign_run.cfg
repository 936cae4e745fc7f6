SPECIFICATION FairSpec
CONSTANTS
  p1 = p1
  p2 = p2
  p3 = p3
  p4 = p4
  Recipients = {r1, r2}
  BatchSize = 1
  Ticks = {w1}
  Calls = {p1, p2, p3, p4}
  Roles <- StartAndReports
  Faults = {}
CHECK_DEADLOCK FALSE
INVARIANTS NeverForgotten CompletedMeansDone CountersAgree
PROPERTY RunningEnds
