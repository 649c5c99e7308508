SPECIFICATION Spec
CONSTANTS
    Slots = {p1, p2}
    Users = {owner, member}
    Owner = owner
    Roles = {everyone, r1, r2}
    Everyone = everyone
    Bits = {ADMINISTRATOR, MANAGE_ROLES}
    ADMINISTRATOR = ADMINISTRATOR
    MANAGE_ROLES = MANAGE_ROLES
    None = None
    MinPosition <- Lowest
    MaxPosition = 3
    MaxRequests = 2
SYMMETRY Symmetry
CHECK_DEADLOCK FALSE
INVARIANTS
    TypeOK
    BitsFromOwner
    HierarchyKept
