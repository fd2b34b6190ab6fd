CONSTANTS
    i1 = i1
    s1 = s1
    open = open
    guarded = guarded
    ruled = ruled
    Invocations = {i1}
    Signals = {s1}
    Capabilities = {open, guarded, ruled}
    Access <- MCAccess
    Timed = {ruled, guarded}
    Deprecated = {open}
    Declaring = {ruled}
    Requests <- AllRequests
    ThrownCodes = {"FORBIDDEN", "INPUT_INVALID"}
    MaxProgress = 2
SPECIFICATION FairSpec
INVARIANT AuthorizedBeforeExecution AbortDecidesRace
    ResourcesBelongToStage
PROPERTY OrderedProgress ImplementsContract CallsSettle
CHECK_DEADLOCK FALSE
