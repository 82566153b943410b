CONSTANTS
  w1 = w1
  w2 = w2
  t1 = t1
  t2 = t2
  s1 = s1
  s2 = s2
  p1 = p1
  p2 = p2
  Trees = {w1, w2}
  Threads = {t1, t2}
  Spaces = {s1, s2}
  Procs = {p1, p2}
SPECIFICATION Spec
SYMMETRY OwnershipSymmetry
INVARIANTS TypeOK GrantsHold ManagedIsOwned OneTreeEach
PROPERTIES SpacesStand WorkSurvives
