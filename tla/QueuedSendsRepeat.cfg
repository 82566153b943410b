SPECIFICATION Spec
CONSTANTS
  q1 = q1
  d1 = d1
  s1 = s1
  s2 = s2
  c1 = c1
  c2 = c2
  Queue = {q1}
  Direct = {}
  Services = {s1}
  Calls = {c1, c2}
  MaxAttempt = 3
  MaxGeneration = 1
  MaxLost = 1
  MaxCrashes = 0
  MaxOthers = 1
INVARIANT OneTurnEach
CHECK_DEADLOCK FALSE
