SPECIFICATION Spec
CHECK_DEADLOCK FALSE
CONSTANTS
    Workers = {w1, w2}
    Engines = {e1, e2}
    KeyEngine = e1
    Drain = TRUE
    Rounds = 3
INVARIANT NoUseAfterDelete
INVARIANT NothingDropped
INVARIANT SeesOwnPushes
PROPERTY ReadsAreMonotone
PROPERTY EveryoneEnds
