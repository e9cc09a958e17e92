CONSTANTS
    t1 = t1
    t2 = t2
    t3 = t3
    None = None
    Threads = {t1, t2, t3}
    Prio <- TwoPriorities
    IsFifo = FALSE
    InitCount = 1
    MaxCount = 3
    Counts = {1, 2, 3}
SPECIFICATION Spec
CHECK_DEADLOCK FALSE
INVARIANTS
    TypeOK
    NoIdleWaiter
    ListedExact
    TokensConserved
    OrderKept
PROPERTY NoOvertaking
