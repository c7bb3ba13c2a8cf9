SPECIFICATION Spec
CONSTANTS
    Categories = {orders, letters}
    Docs = {d1}
    Workers = {w1, w2}
    None = None
SYMMETRY MCSymmetry
INVARIANTS
    DeletedCategoryIsEmpty
    HistoryTellsCategory
PROPERTIES
    BuriedStaysBuried
CHECK_DEADLOCK FALSE
