SPECIFICATION Spec
CONSTANTS
    Users = {root, boss, user}
    Superusers = {root, boss}
    Roles = {admin, custom}
    SystemRoles = {admin}
    AdminRoles = {admin}
    Workers = {w1, w2}
    MaxSecret = 1
    GivenStatus = {"blocked"}
    GivenRoles = {custom}
    Assigned = {user}
    Watched = {user}
    None = None
SYMMETRY MCSymmetry
INVARIANTS
    RolesInUseExist
    LinkWorksOnce
    OnlyPatchLocksOut
    ASuperuserRemains
PROPERTY DeletedStaysDeleted
CHECK_DEADLOCK FALSE
