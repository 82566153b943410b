CONSTANTS
  o1 = o1
  o2 = o2
  c1 = c1
  c2 = c2
  Ops <- MCOps
  Mutations <- MCOps
  Calls <- OneCall
  Sessions <- MCSessions
  MaxCommands = 32
  MaxFaults = 1
SPECIFICATION Spec
CHECK_DEADLOCK FALSE
INVARIANTS
  TypeOK
  ResumeEvidenceHolds
  
  OutcomesTrue
  MutationsFenced
PROPERTIES
  OutcomesArrive
