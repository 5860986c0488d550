CONSTANTS
    Caller = {c1, c2}
    Address = {a1, a2}
    NoCaller = NoCaller
    ToClose = ToClose
SPECIFICATION FairSpec
INVARIANTS
    TypeOK
    OpOnOpenFile
PROPERTIES
    ImplementsAtomicBus
    CallsReturn
