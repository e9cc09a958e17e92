CONSTANTS
    NumVirtual = 3
    NumDirect = 2
    NumFlexible = 2
    MemoryTypes = {1,3}
    Mappers = {m1, m2}
    Careful = TRUE
    MaxSize = 2
    m1 = m1
    m2 = m2
SPECIFICATION Spec
INVARIANTS TypeOK NoAbort HostAgrees PhysExact BudgetsExact
CONSTRAINT Explored
SYMMETRY Symmetry
CHECK_DEADLOCK FALSE
