SPECIFICATION FairSpec
CONSTANTS
    Workers = {w1, w2, w3}
    LoopNum = 3
    Free = free
CHECK_DEADLOCK FALSE
INVARIANTS NeverTakesFromEmpty OneThreadPerLoop NoWakeupLost
PROPERTIES EveryLoopRuns StopReturns
