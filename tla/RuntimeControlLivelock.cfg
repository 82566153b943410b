CONSTANTS
  o1 = o1
  o2 = o2
  c1 = c1
  c2 = c2
  Ops <- OneOp
  Mutations <- OneOp
  Calls <- OneCall
  Sessions <- MCSessions
  MaxCommands = 32
  MaxFaults = 1
SPECIFICATION Spec
CHECK_DEADLOCK FALSE
PROPERTIES
  ConnectionRecovers
