CONSTANTS
    MaxNcs = 2
    MaxWorkers = 4
SPECIFICATION FairSpec
\* The process may exit, and the bounds let it run dry.
CHECK_DEADLOCK FALSE
INVARIANTS
    TypeOK
    OneWorkerOnHardware
    RunningIsPublished
PROPERTIES
    NewestConfigOnHardware
    ConfigTakesEffect
