CONSTANTS
    PathSets <- MCPathSets
    MaxFaults = 3
SPECIFICATION FairSpec
INVARIANTS
    TypeOK
    WorksFromAnywhere
PROPERTIES
    ToolStable
    Recovers
    TreeRestored
