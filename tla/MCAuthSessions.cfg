SPECIFICATION Spec
CONSTANTS
    Slots = {p1, p2}
    Users = {u1}
    Tokens = {t1, t2, t3, t4}
    None = None
    LoginFailMax = 2
    ChangeMax = 1
    MaxRequests = 4
    MaxFaults = 1
SYMMETRY Symmetry
CHECK_DEADLOCK FALSE
INVARIANTS
    TypeOK
    RevokedStayOut
    RotatedOnce
    AttemptsBounded
