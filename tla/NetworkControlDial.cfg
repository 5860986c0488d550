CONSTANTS
    MaxRecentErrors = 1
    MaxChanges = 1
    MaxConfigs = 1
    MaxFailures = 1
    MaxStream = 1
SPECIFICATION Spec
CHECK_DEADLOCK FALSE
INVARIANT NcsHasConnection
