SPECIFICATION DataFairSpec
CONSTANTS
    Callers = {a, b}
    Keys = {k1}
    Absent = Absent
    MaxInFlight = 0
    MaxWrites = 0
    MaxFaults = 0
CHECK_DEADLOCK FALSE
PROPERTY
    WaitersAnswered
