SPECIFICATION BoardSpec
CONSTANT Positions <- StalematePositions
CHECK_DEADLOCK FALSE
INVARIANT StalemateIsDrawn
