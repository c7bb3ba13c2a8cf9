SPECIFICATION HierarchySpec
CONSTANTS
    Depts = {a, b, c, d}
    Users = {u1, u2}
    Threads = {w1}
    None = None
SYMMETRY MCSymmetry
INVARIANTS
    HierarchyHasNoCycle
    TreeIsComplete
    DeletedHasNoEmployees
PROPERTIES
    RemovedStayRemoved
CHECK_DEADLOCK FALSE
