CONSTANTS
  Conns <- MCConns
  MaxEvents = 3
  MaxFaults = 1
  InitialState = "running"
SPECIFICATION Spec
CHECK_DEADLOCK FALSE
INVARIANTS
  NoEventRefused
PROPERTIES
  Delivered
