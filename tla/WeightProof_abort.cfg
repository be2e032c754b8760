CONSTANTS
    w1 = w1
    w2 = w2
    t1 = t1
    t2 = t2
    t3 = t3
    Handlers <- MCHandlers
    Tips <- MCTips
    EvictCount <- MCEvictCount
SPECIFICATION WSpecWithAbort
CHECK_DEADLOCK FALSE
PROPERTY WaitersReleased
