CONSTANTS
  MaxInits = 2
  MaxRequests = 3
  MaxFaults = 1
  MaxCommands = 2
  MaxRecords = 2
  MaxOdd = 1
SPECIFICATION FairSpec
INVARIANTS TypeOK ImageLag OwnReport KeepsSync
PROPERTIES HandshakeEnds FingerNoticed ImageReceived
CHECK_DEADLOCK FALSE
