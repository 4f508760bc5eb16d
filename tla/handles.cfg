SPECIFICATION FairSpec
CONSTANTS
    w1 = w1
    w2 = w2
    Workers = {w1, w2}
    Calls = {1, 2, 3, 4}
    Program <- TwoOrders
    NameOf <- TwoNames
    SuspendPoints = {0, 2, 3}
    Drain = TRUE
INVARIANT CallsPairUp
INVARIANT NoUseAfterShutdown
PROPERTY EveryCallReturns
CHECK_DEADLOCK FALSE
