SPECIFICATION RequestsSpec
CONSTANTS
    author = author
    clerk = clerk
    faculty = faculty
    Nobody = Nobody
    Docs = {d1}
    Workers = {w1, w2}
    MaxSteps = 2
    MaxRounds = 2
    MaxNumber = 1
    Users <- MCUsers
    Admins = {}
    Managers = {}
    Office = {clerk}
    Holders <- MCHolders
    Departments = {faculty}
    DepartmentOf <- MCDepartmentOf
    Responsibles = {author}
    Deadlines = {"future"}
SYMMETRY WorkerSymmetry
PROPERTIES
    RegistrationNumberIsImmutable
