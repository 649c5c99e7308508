SPECIFICATION DataSpec
CONSTANTS
    Callers = {a, b, c}
    Keys = {k1, k2}
    Absent = Absent
    MaxInFlight = 1
    MaxWrites = 1
    MaxFaults = 1
CHECK_DEADLOCK FALSE
SYMMETRY Symmetry
INVARIANTS
    DataTypeOK
    OneFetchPerKey
    FollowersShareOutcome
    NotOlderThanStart
