CONSTANTS
    MaxRecentErrors = 1
    MaxChanges = 2
    MaxConfigs = 2
    MaxFailures = 3
    MaxStream = 2
SPECIFICATION FairSpec
\* The main loop may have returned.
CHECK_DEADLOCK FALSE
INVARIANTS
    TypeOK
    NewestIsTaken
PROPERTIES
    ChangeTakesEffect
    NewestConfigIsDelivered
    NcsEndsAsAWhole
