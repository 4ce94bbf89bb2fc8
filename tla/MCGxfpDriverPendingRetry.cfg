CONSTANT NumStages = 2
SPECIFICATION Spec
INVARIANT NoTimeoutPending
CHECK_DEADLOCK FALSE
