CONSTANTS
    NLines = 1
    Depth = 2
    Slots = 2
    Late <- FirstWorker
    ReadyRoom = 1
    WaitCap = 1
    Budget <- OneEach
    IrqOutcomes <- Ok
    MainOutcomes <- Never
    Paced = FALSE
SPECIFICATION Spec
INVARIANTS
    TopIsExecuting
CHECK_DEADLOCK FALSE
