SPECIFICATION Spec
CONSTANTS
    Slots = {p1, p2}
    Users = {u1, u2}
    Channels = {c1, c2, c3, c4}
    None = None
    MaxGroup = 2
    MaxRequests = 5
    MaxFailures = 1
SYMMETRY Symmetry
CHECK_DEADLOCK FALSE
INVARIANTS
    TypeOK
    PairsMatch
    FriendsConsented
    OneDirectChannel
