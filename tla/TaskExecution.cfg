CONSTANTS
  e1 = e1
  e2 = e2
  start1 = start1
  start2 = start2
  cancel1 = cancel1
  send2 = send2
  respond2 = respond2
  archive1 = archive1
  Execs = {e1, e2}
  Ops = {start1, cancel1, archive1, start2, send2, respond2}
  Calls = {c1, c2}
  c1 = c1
  c2 = c2
  MaxEvents = 3
  EnvOf <- MCEnvOf
  Kind <- MCKind
  Of <- MCOf
SPECIFICATION Spec
INVARIANTS TypeOK RunningIsBound OutcomesStand
SYMMETRY CallSymmetry
CHECK_DEADLOCK FALSE
