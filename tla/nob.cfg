CONSTANTS
    OwnFiles = {"nob.c"}
    Argvs <- MCArgvs
    ViSources = {"v1", "v2"}
    LauncherSources = {}
    MaxProcs = 2
    MaxTime = 2
    MaxEdits = 1
    MaxCommands = 2
    None = None
SPECIFICATION BFairSpec
INVARIANTS
    BTypeOK
    RunsItsSources
    NobIsKept
    ArgsReachMain
    StatusReachesShell
    LinksWhatItFound
    NoneLeftBehind
PROPERTIES
    CommandsEnd
    ImplementsRebuild
CHECK_DEADLOCK FALSE
