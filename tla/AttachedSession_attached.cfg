CONSTANTS
    Owners = {o1, o2}
    MaxSlots = 2
    None = None
SPECIFICATION FairSpec
INVARIANT NothingLeaks OnlyTheLastSpeaks
PROPERTY NeverReturns SessionsSettle
CHECK_DEADLOCK FALSE
