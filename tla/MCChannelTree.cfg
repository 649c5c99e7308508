SPECIFICATION Spec
CONSTANTS
    Slots = {p1, p2}
    Channels = {c1, c2, c3, c4}
    Targets = {t1}
    Webhooks = {w1}
    None = None
    MaxChannels = 3
    MaxChildren = 1
    MaxRequests = 3
    MaxFailures = 1
SYMMETRY Symmetry
CHECK_DEADLOCK FALSE
INVARIANTS
    TypeOK
    LimitsWithinReach
    OverridesSerial
