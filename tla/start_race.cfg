CONSTANTS
    NLines = 1
    Depth = 2
    Slots = 2
    Late <- NoWorker
    ReadyRoom = 1
    WaitCap = 1
    Budget <- OneEach
    IrqOutcomes <- Ok
    MainOutcomes <- Never
    Paced = FALSE
SPECIFICATION Spec
INVARIANTS
    AssertionsHold
CHECK_DEADLOCK FALSE
