CONSTANTS
  Gens <- TwoGens
  Expected <- TwoServers
  ServerGens <- MCServerGens
  MaxFaults = 2
SPECIFICATION Spec
CHECK_DEADLOCK FALSE
INVARIANTS
  TypeOK
  OwnedProcess
  OwnedServers
  
  
PROPERTIES
  Settles
