CONSTANTS
    NLines = 3
    Depth = 3
    Slots = 3
    Late <- NoWorker
    ReadyRoom = 1
    WaitCap = 2
    Budget <- OneEach
    IrqOutcomes <- Ok
    MainOutcomes <- Never
    Paced = TRUE
SPECIFICATION Spec
INVARIANTS
    DeferredAreKept
CHECK_DEADLOCK FALSE
