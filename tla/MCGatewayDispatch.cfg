SPECIFICATION Spec
CONSTANTS
    Listeners = {user, server}
    None = None
    ChannelCapacity = 4
    BufferLimit = 2
    Claims = {1, 2}
    MaxEvents = 3
    MaxResumes = 1
    MaxHeartbeats = 1
    MaxFormer = 1
    MaxFailures = 1
CHECK_DEADLOCK FALSE
SYMMETRY Symmetry
CONSTRAINT FewerEvents
INVARIANTS
    TypeOK
    HandshakeFirst
    SubjectOrder
    AboveLastReplayed
