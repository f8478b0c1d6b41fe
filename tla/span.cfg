CONSTANTS
    ChunkSize = 2
    Blocks = {b1, b2, b3, b4, b5}
    NULL = NULL
    MaxLen = 5
SPECIFICATION Spec
SYMMETRY MCSymmetry
INVARIANTS
    TypeOK
    HeldStay
    Apart
    NoLeak
    EndInside
CHECK_DEADLOCK FALSE
