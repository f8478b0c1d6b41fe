CONSTANTS
    Values <- MCValues
    Cap = 4
SPECIFICATION Spec
INVARIANTS
    TypeOK
    NoDataRace
PROPERTIES
    ImplementsFifo
