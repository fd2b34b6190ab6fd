CONSTANTS
    Interval = 2
    MaxReports = 4
    None = None
SPECIFICATION FairHttpSpec
INVARIANTS BuffersBounded NewestArrives
PROPERTIES HeldGoesOut RequestSettles
CHECK_DEADLOCK FALSE
