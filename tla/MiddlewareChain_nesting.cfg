CONSTANT Depth = 3
SPECIFICATION FairChainSpec
INVARIANT NestedLifetimes
PROPERTY OrderlyStarts ChainSettles
CHECK_DEADLOCK FALSE
