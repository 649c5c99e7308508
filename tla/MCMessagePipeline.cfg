SPECIFICATION Spec
CONSTANTS
    Slots = {p1, p2}
    Users = {u1, u2}
    Workers = {"search-indexer"}
    Managers = {u1}
    None = None
    OldIds = 3
    MaxIds = 5
    MaxPins = 1
    MaxDeliver = 2
    MaxRequests = 2
    MaxFaults = 1
CHECK_DEADLOCK FALSE
INVARIANTS
    TypeOK
    DeletionsTrue
    LimitsWithinReach
    Settles
