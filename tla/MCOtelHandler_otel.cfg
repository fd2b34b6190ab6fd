CONSTANTS
    i1 = i1
    i2 = i2
    i3 = i3
    i4 = i4
    a = a
    b = b
    c = c
    s1 = s1
    s2 = s2
    Invocations = {i1, i2, i3, i4}
    RequestIds = {a, b, c}
    Sources = {s1, s2}
    maxPendingSpans = 1
SPECIFICATION Spec
SYMMETRY Symmetry
INVARIANTS MemoryBounded CountsAreExact OpenSpansAreKnown NothingMisattributed
CHECK_DEADLOCK FALSE
