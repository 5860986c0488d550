CONSTANTS
    StraightA = StraightA
    StraightB = StraightB
    OffA = OffA
    OffB = OffB
    BankB = {OffA, OffB}
    InvertPins = {"off"}
    InvertedPin = {OffA}
    AlwaysEnabled = FALSE
    ChipKind = "mcp23017"
    Left = {{StraightA, StraightB}}
    Unused = {"straight"}
    MaxWaiting = 1
    MaxFailures = 1
SPECIFICATION Spec
\* The worker may have ended.
CHECK_DEADLOCK FALSE
INVARIANTS
    TypeOK
    ClosedIsSafe
PROPERTIES
    SwitchTakesEffect
    WorkerReturns
    DirectionIsReported
    ConfiguredIsTold
