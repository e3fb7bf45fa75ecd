CONSTANTS
    Host = {h1, h2}
    Node = {n1}
    Task = {t1, t2}
    NoHost = NoHost
    NoNode = NoNode
    NoTask = NoTask
    MaxAttempts = 2
    PoolSize = 1
    Faults = {"crash", "stop", "slow"}
SPECIFICATION FairSpec
INVARIANTS
    TypeOK
    MutualExclusion
    NoLeakedReservation
PROPERTIES
    TasksEnd
    LocksAreFreed
    ImplementsNodeLock
