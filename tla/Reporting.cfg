CONSTANTS
    QueueSize = 1
    MaxFailures = 1
    InvertSensor = TRUE
    InvertOutput = FALSE
SPECIFICATION Spec
\* The object may have returned.
CHECK_DEADLOCK FALSE
INVARIANTS
    TypeOK
    WaitingIsReported
PROPERTIES
    SensorIsReported
    RequestIsApplied
    StopsWhenCancelled
