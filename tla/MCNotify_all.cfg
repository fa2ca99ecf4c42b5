CONSTANTS
    c1 = c1
    c2 = c2
    w1 = w1
    w2 = w2
    t1 = t1
    t2 = t2
    Callers = {c1, c2}
    Workers = {w1, w2}
    Targets = {t1, t2}
    QueueSize = 1
    MaxEvents = 3
SPECIFICATION FairSpec
INVARIANTS
    EventInOnePlace
    SilentLossOnlyInShutdown
    EveryTargetTried
PROPERTIES
    QueuedEventsSettle
    DispatchReturns
    StopEnds
CHECK_DEADLOCK FALSE
