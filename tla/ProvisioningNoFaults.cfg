CONSTANTS
    Host = {h1}
    Node = {n1}
    Task = {t1, t2}
    NoHost = NoHost
    NoNode = NoNode
    NoTask = NoTask
    MaxAttempts = 1
    PoolSize = 1
    Faults = {}
    Requests = {"deploy", "rebuild", "delete", "clean", "provide", "manage", "adopt", "abort", "inspect", "maintain"}
    CreatedAs = {"enroll"}
    AutomatedClean = TRUE
    UsesInspector = FALSE
    Uncaught = {"clean_auto", "clean_manual"}
SPECIFICATION ProvSpec
SYMMETRY TaskSymmetry
INVARIANTS
    ProvTypeOK
    TargetFitsState
    AvailableIsClean
    NoAbandonedWork
    
PROPERTIES
    MachineIsFollowed
