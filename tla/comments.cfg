SPECIFICATION Spec
CONSTANTS
    Comments = {c1, c2, c3}
    Users = {author, approver}
    Approvers = {approver}
    Workers = {w1, w2}
    Texts = {first, second}
SYMMETRY MCSymmetry
INVARIANTS
    ReturnedHasItsReason
PROPERTIES
    DeletedCommentStaysDeleted
    ArchivedIsReadOnly
