CONSTANTS
    h0 = h0
    h1 = h1
    h2 = h2
    s0 = s0
    s1 = s1
    s2 = s2
    None = None
    Hosts = {h0, h1, h2}
    Main = h0
    Slots = {s0, s1, s2}
    MainSlot = s0
    GcThreshold = 1
    MaxCachedThreads = 1
    MaxThreads = 2
SPECIFICATION Spec
CHECK_DEADLOCK FALSE
INVARIANT NeverReach
