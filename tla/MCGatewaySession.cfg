SPECIFICATION Spec
CONSTANTS
    Conns = {c1, c2, c3}
    Users = {u1, u2}
    SessionIds = {s1, s2}
    None = None
    MaxResumes = 2
    MaxFailures = 1
    MaxCrashes = 1
CHECK_DEADLOCK FALSE
SYMMETRY Symmetry
INVARIANTS
    TypeOK
    SessionsBelongToOwner
    ExclusiveUntilCleanup
    RegistryMatchesTasks
    OfflineSettles
