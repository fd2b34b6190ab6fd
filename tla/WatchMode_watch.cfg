CONSTANTS
    Hosts = {h1, h2}
    None = None
    ModuleDirectoryInsideCwd = FALSE
    MaxChanges = 3
SPECIFICATION FairSpec
INVARIANT OneHost
PROPERTY KeepsServing CatchesUp CloseIsFinal
CHECK_DEADLOCK FALSE
