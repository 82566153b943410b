CONSTANTS
  Conns <- MCConns
  MaxEvents = 4
  MaxFaults = 2
  InitialState = "starting"
SPECIFICATION Spec
CHECK_DEADLOCK FALSE
INVARIANTS
  TypeOK
  WatermarksAgree
  CleanExitMeansStopped
PROPERTIES
  ExactlyOnceInOrder
