CONSTANTS
    r1 = r1
    c1 = c1
    f1 = f1
    f2 = f2
    Renderers = {r1}
    Flippers = {c1}
    EopBuffers = {0, 1}
    CpuBuffers = {2}
    Ranges <- AllBuffers
    Groups = {0}
    Frames = {f1, f2}
    Rates = {0, 1}
    FlipLimit = 1
    MaxQueue = 1
    MaxCalls = 1
    Modulus = 16
    Settled = TRUE
SPECIFICATION Spec
CHECK_DEADLOCK FALSE
INVARIANTS
    PendingExact
    NoTearing
    FlipInOrder
    FramesConserved
