CONSTANTS
    p1 = p1
    p2 = p2
    s1 = s1
    s2 = s2
    c1 = c1
    c2 = c2
    Processes = {p1, p2}
    Interruptible = {}
    Budget = 0
    FirstWait = 1
    LongestWait = 1
    Errors = {"READ_FAILED", "ENGINE_IDENTITY_MISMATCH", "CONFIG_CHANGED", "REFUSED", "STATE_INVALID", "CONFIG_ROLLBACK_FAILED", "CONFIG_WRITE_FAILED", "STATE_WRITE_FAILED"}
    TargetOf <- OneTarget
    Texts = {"v1", "v2"}
    States = {s1, s2}
    Configs = {c1}
    StateOf <- TwoStates
    Strategy = "native"
    Entries = {"e1"}
    Names = {"n1"}
    Jobs <- OneEntry
    InitialFiles <- Existing
    MaxEdits = 1
    observedEntry = "e1"
    observedState = s1
    observedConfig = c1
VIEW Relevant
SPECIFICATION Spec
INVARIANT FilesAgree
PROPERTY FailureUndoes
