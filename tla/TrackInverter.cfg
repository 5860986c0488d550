CONSTANT MaxFailures = 1
SPECIFICATION FairSpec
\* Run may have returned.
CHECK_DEADLOCK FALSE
INVARIANTS
    TypeOK
    NoShort
PROPERTY RequestIsObeyed
