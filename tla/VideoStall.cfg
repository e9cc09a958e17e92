CONSTANTS
    r1 = r1
    c1 = c1
    f1 = f1
    f2 = f2
    Renderers = {r1}
    Flippers = {c1}
    EopBuffers = {0, 1}
    CpuBuffers = {}
    Ranges <- AllBuffers
    Groups = {0}
    Frames = {f1, f2}
    Rates = {0}
    FlipLimit = 2
    MaxQueue = 1
    MaxCalls = 0
    Modulus = 16
    Settled = TRUE
SPECIFICATION FairSpec
CHECK_DEADLOCK FALSE
PROPERTY SleepEnds
