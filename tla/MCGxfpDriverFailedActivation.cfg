CONSTANT NumStages = 2
SPECIFICATION Spec
INVARIANT TransitionsValid
CHECK_DEADLOCK FALSE
