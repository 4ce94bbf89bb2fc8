CONSTANT NumStages = 2
SPECIFICATION FairSpec
PROPERTY AnyCancelEnds
CHECK_DEADLOCK FALSE
