CONSTANT NumStages = 2
SPECIFICATION Spec
INVARIANT ErrorAborts
CHECK_DEADLOCK FALSE
