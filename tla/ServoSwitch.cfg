CONSTANTS
    StraightPL = 9
    OffPL = 2
    StepSize = 2
    MaxFailures = 2
SPECIFICATION FairSpec
\* Run may have returned.
CHECK_DEADLOCK FALSE
INVARIANTS
    TypeOK
    RelayMatchesPosition
PROPERTIES
    MovesNearer
    ActualIsReached
    RequestIsObeyed
