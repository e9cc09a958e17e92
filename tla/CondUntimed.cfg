CONSTANTS
    t1 = t1
    t2 = t2
    t3 = t3
    m1 = m1
    c1 = c1
    None = None
    Threads = {t1, t2, t3}
    Mutexes = {m1}
    Conds = {c1}
    MaxDeferWaiters = 1
    MutexType <- AllRecursive
    MaxCount = 1
    SemaMax = 2
    TimedWaits = FALSE
    Targets = {t1}
SPECIFICATION FairSpec
CHECK_DEADLOCK FALSE
INVARIANTS
    TypeOK
    MutualExclusion
    RecursionRestored
    DeferredIsFlushed
    WaitNeverUnreachable
PROPERTY SignalDelivered
