CONSTANTS
  Conns <- MCConns
  MaxEvents = 3
  MaxFaults = 0
  InitialState = "starting"
SPECIFICATION Spec
CHECK_DEADLOCK FALSE
PROPERTIES
  Delivered
