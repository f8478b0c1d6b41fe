CONSTANTS
    Elements <- MCElements
    WaitCap = 6
SPECIFICATION Spec
INVARIANTS
    TypeOK
    LoopsMatchOps
PROPERTIES
    CallsEnd
