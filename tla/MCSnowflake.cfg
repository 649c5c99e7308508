SPECIFICATION SnowflakeSpec
CONSTANTS
    t1 = t1
    t2 = t2
    t3 = t3
    Threads <- MCThreads
    Home <- MCHome
    MachineCount = 2
    SequenceCount = 2
    MaxTime <- MCMaxTime
    MaxRestarts = 1
INVARIANTS
    SnowflakeTypeOK
    FieldsTold
PROPERTY
    ImplementsUniqueIds
SYMMETRY Symmetry
