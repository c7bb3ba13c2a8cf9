SPECIFICATION Spec
CONSTANTS
    FileIds = {f1, f2, f3}
    Workers = {w1, w2, w3}
    MaxDeletions = 2
SYMMETRY MCSymmetry
INVARIANTS
    EveryFileHasItsBlob
    MainFileIsKept
    HistoryAccountsForFiles
PROPERTIES
    OnlyFailuresLeaveFiles
