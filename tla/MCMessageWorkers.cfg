SPECIFICATION Spec
CONSTANTS
    Slots = {p1}
    Users = {u1}
    Workers = {"push-worker", "read-state-updater"}
    Managers = {u1}
    None = None
    OldIds = 0
    MaxIds = 1
    MaxPins = 1
    MaxDeliver = 2
    MaxRequests = 2
    MaxFaults = 1
CHECK_DEADLOCK FALSE
PROPERTY
    EachConsumed
