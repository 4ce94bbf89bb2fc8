CONSTANT NumStages = 2
SPECIFICATION Spec
INVARIANT SuspendRefuses
CHECK_DEADLOCK FALSE
