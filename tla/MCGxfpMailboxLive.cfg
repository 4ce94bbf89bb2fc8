SPECIFICATION FairSpec
CONSTANTS
  t1 = t1
  t2 = t2
  Threads <- TwoThreads
  Capacity = 1
  MaxRecords = 1
\* After unbinding, with every file closed, nothing is left to do.
CHECK_DEADLOCK FALSE
PROPERTIES
  SleepersWake
  RemoveCompletes
  CallsEndAfterRemove
