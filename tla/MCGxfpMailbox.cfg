SPECIFICATION Spec
CONSTANTS
  t1 = t1
  t2 = t2
  Threads <- TwoThreads
  Capacity = 2
  MaxRecords = 4
SYMMETRY ThreadSymmetry
\* After unbinding, with every file closed, nothing is left to do.
CHECK_DEADLOCK FALSE
INVARIANTS
  
  QuietWhenDown
  StrobesWhole
  NoUseAfterRelease
  NoLeak
  IrqPaired
  SleeperHasWaker
  ReadsInOrder
PROPERTIES
  ChannelSpec
