SPECIFICATION Spec
CONSTANTS
  start1 = start1
  stop1 = stop1
  delete1 = delete1
  none = none
  c1 = c1
  c2 = c2
  w1 = w1
  Starts = {start1}
  Stops = {stop1}
  Deletes = {delete1}
  None = none
  Calls = {c1, c2}
  Works = {w1}
  MaxTroubles = 2
SYMMETRY CallSymmetry
INVARIANTS
  TypeOK
  FenceHolds
  NeverTwice
PROPERTIES
  SparesWork
CHECK_DEADLOCK FALSE
