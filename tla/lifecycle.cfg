SPECIFICATION Spec
CONSTANTS
    author = author
    manager = manager
    admin = admin
    faculty = faculty
    Nobody = Nobody
    Docs = {d1}
    MaxSteps = 2
    MaxRounds = 2
    MaxNumber = 2
    Users <- MCUsers
    Admins <- MCAdmins
    Managers <- MCManagers
    Office <- MCOffice
    Holders <- MCHolders
    Departments <- MCDepartments
    Responsibles <- MCResponsibles
    Deadlines <- Deadline
    DepartmentOf <- MCDepartmentOf
INVARIANTS
    NoRouteLeftOpen
    ApprovedMeansSigned
    TimestampsMatchStatus
PROPERTIES
    RegistrationNumberIsImmutable
    ClosedRoutesAreFrozen
    OverdueIsFinal
    LateDocumentsAreMarked
