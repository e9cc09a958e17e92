CONSTANTS
    t1 = t1
    t2 = t2
    t3 = t3
    m1 = m1
    c1 = c1
    None = None
    Threads = {t1, t2, t3}
    Mutexes = {m1}
    Conds = {c1}
    MaxDeferWaiters = 1
    MutexType <- AllNormal
    MaxCount = 0
    SemaMax = 1
    TimedWaits = TRUE
    Targets = {}
SPECIFICATION Spec
CHECK_DEADLOCK FALSE
INVARIANT WaitNeverUnreachable
