SPECIFICATION Spec
CONSTANTS
    Slots = {p1, p2}
    Users = {u1, u2, u3}
    Invites = {i1, i2}
    None = None
    UseLimits = {1}
    MaxRequests = 2
    MaxFailures = 1
CHECK_DEADLOCK FALSE
SYMMETRY Symmetry
INVARIANTS
    TypeOK
    UseLimitKept
    OwnerIsMember
    BannedAreOut
    CountSettles
