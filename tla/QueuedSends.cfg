SPECIFICATION Spec
CONSTANTS
  q1 = q1
  d1 = d1
  s1 = s1
  s2 = s2
  c1 = c1
  c2 = c2
  Queue = {q1}
  Direct = {d1}
  Services = {s1}
  Calls = {c1, c2}
  MaxAttempt = 4
  MaxGeneration = 2
  MaxLost = 1
  MaxCrashes = 1
  MaxOthers = 1
INVARIANTS TypeOK NoSecondTurn
PROPERTIES QueuedEnds
CHECK_DEADLOCK FALSE
