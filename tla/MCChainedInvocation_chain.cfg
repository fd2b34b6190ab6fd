CONSTANTS
    i1 = i1
    s1 = s1
    open = open
    guarded = guarded
    Invocations = {i1}
    Signals = {s1}
    Capabilities = {open, guarded}
    Access <- MCAccess
    Timed = {guarded}
    Deprecated = {}
    Declaring = {open}
    Requests <- WrappedRequests
    ThrownCodes = {"FORBIDDEN"}
    MaxProgress = 1
    call = i1
    Depth = 2
SPECIFICATION ChainedSpec
INVARIANT CompletesAfterChain
PROPERTY StartsWithinInvocation ChainRunsAsAlone
CHECK_DEADLOCK FALSE
