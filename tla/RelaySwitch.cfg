CONSTANTS
    Straight = Straight
    Off = Off
    Other = Other
    BankB = {Off}
    Inverted = {}
SPECIFICATION FairSpec
\* The worker may be closed with no other object using the chip.
CHECK_DEADLOCK FALSE
INVARIANTS
    TypeOK
    NeverBothCoils
    CoilIsScheduled
    ClosedStaysSafe
PROPERTIES
    PulseEndReleasesCoils
    ScheduledIsReleased
    CancelledRunReturns
