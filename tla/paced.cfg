CONSTANTS
    NLines = 3
    Depth = 1
    Slots = 4
    Late <- FirstWorker
    ReadyRoom = 1
    WaitCap = 4
    Budget <- MiddleTwice
    IrqOutcomes <- OkOrTrap
    MainOutcomes <- OkOrTrap
    Paced = TRUE
SPECIFICATION FairSpec
INVARIANTS
    ExecutingRuns
    InterruptedAreStopped
    IdleWorkersWait
    RequestsAccounted
PROPERTIES
    RequestsServed
    MainComesBack
CHECK_DEADLOCK FALSE
