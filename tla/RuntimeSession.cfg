SYMMETRY Symmetry
CONSTANTS
  Gens = {g1, g2}
  Creds = {c1, c2}
  Socks = {s1, s2}
  EventIds = {i1, i2}
  Bodies = {"running", "stopped"}
  MaxSequence = 2
  MaxSessions = 2
SPECIFICATION Spec
INVARIANTS
  TypeOK
  OneLiveGeneration
  LedgerMatchesRow
  WritersInOrder
PROPERTIES
  
  CleanupSparesCurrent
