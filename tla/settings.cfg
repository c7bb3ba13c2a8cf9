SPECIFICATION Spec
CONSTANTS
    Keys = {size, types}
    Values = {old, new}
    Workers = {w1, w2}
    Seeded = old
SYMMETRY MCSymmetry
INVARIANTS
    AuditTellsValue
    AuditNamesValue
