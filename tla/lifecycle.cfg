CONSTANTS
    Depth = 3
SPECIFICATION FairSpec
INVARIANTS
    TypeOK
    FreedAfterJoin
PROPERTIES
    CreationReturns
    DestructionReturns
CHECK_DEADLOCK FALSE
