CONSTANTS
    StraightPL = 9
    OffPL = 2
    StepSize = 2
    MaxFailures = 1
SPECIFICATION Spec
CHECK_DEADLOCK FALSE
INVARIANT RelaysOffWhileMoving
