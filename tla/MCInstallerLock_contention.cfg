CONSTANTS
    p1 = p1
    p2 = p2
    p3 = p3
    s1 = s1
    s2 = s2
    c1 = c1
    Processes = {p1, p2, p3}
    Interruptible = {p2}
    States = {s1, s2}
    Configs = {c1}
    StateOf <- MCStateOf
    Errors = {"STATE_INVALID"}
    Budget = 2
    FirstWait = 1
    LongestWait = 2
SPECIFICATION FairLockSpec
INVARIANT LocksBelongToStage MutualExclusion
PROPERTY AcquisitionEnds
