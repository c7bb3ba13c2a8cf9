SPECIFICATION HierarchySpec
CONSTANTS
    Depts = {a, b, c}
    Users = {u1, u2}
    Threads = {w1, w2}
    None = None
SYMMETRY MCSymmetry
INVARIANTS
    HierarchyHasNoCycle
CHECK_DEADLOCK FALSE
