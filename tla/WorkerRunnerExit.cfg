CONSTANTS
    MaxNcs = 1
    MaxWorkers = 2
SPECIFICATION Spec
CHECK_DEADLOCK FALSE
INVARIANT ExitsOnlyOnTimeout
