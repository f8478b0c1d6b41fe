CONSTANTS
    NLines = 2
    Depth = 3
    Slots = 3
    Late <- FirstWorker
    ReadyRoom = 1
    WaitCap = 2
    Budget <- OneEach
    IrqOutcomes <- Ok
    MainOutcomes <- Ok
    Paced = FALSE
SPECIFICATION RacesSpec
INVARIANTS
    TypeOK
    StackOrdered
    WakeupCovered
    RequestPending
PROPERTIES
    SlotsStable
CHECK_DEADLOCK FALSE
