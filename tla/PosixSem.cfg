CONSTANTS
    t1 = t1
    t2 = t2
    t3 = t3
    Threads = {t1, t2, t3}
    MaxValue = 2
SYMMETRY Symmetry
SPECIFICATION Spec
INVARIANT CountsAgree
