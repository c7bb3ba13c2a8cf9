SPECIFICATION Spec
CONSTANTS
    LastDoc = 1
    Processes = {p1, p2}
    SoonHours = 1
    MaxRetries = 1
    Watched <- MCWatched
    MaxTime = 2
    MaxMoves = 1
    MaxCrashes = 1
INVARIANTS
    OneEmailPerNotice
PROPERTIES
    ReadStaysRead
    LateIsNoticed
    EmailIsSentOrGivenUp
