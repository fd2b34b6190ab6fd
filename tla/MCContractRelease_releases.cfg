CONSTANTS
    Undefined = Undefined
    Invalid = Invalid
    Families <- MCFamilies
    Values <- MCValues
    LengthsOf <- MCLengthsOf
    NamesOf <- MCNamesOf
    Kinds <- MCKinds
    Height <- MCHeight
    Compared <- MCCompared
    Accepted <- MCAccepted
    Sent <- MCSent
SPECIFICATION Spec
INVARIANT ConsumersKeepWorking SpellingIsFree
PROPERTY CallersKeepWorking
CHECK_DEADLOCK FALSE
