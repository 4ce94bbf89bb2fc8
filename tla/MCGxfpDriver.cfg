CONSTANT NumStages = 2
SPECIFICATION FairSpec
INVARIANTS
  TypeOK
  TaskFollowsState
  NoCriticalWarning
  NothingLost
  EnrollsAllStages
  SuspendedIdle
PROPERTIES
  LifecycleSpec
  TaskOrder
  DeadlinesHold
  CancelEnds
CHECK_DEADLOCK FALSE
