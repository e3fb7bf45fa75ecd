CONSTANTS
    Host = {h1, h2}
    Node = {n1}
    Task = {t1}
    NoHost = NoHost
    NoNode = NoNode
    NoTask = NoTask
    MaxAttempts = 1
    PoolSize = 1
    Faults = {"crash", "stop"}
    Requests = {"deploy", "delete", "clean", "manage", "provide", "abort"}
    CreatedAs = {"available"}
    AutomatedClean = TRUE
    UsesInspector = FALSE
    Uncaught = {"deploying", "clean_auto", "clean_manual"}
SPECIFICATION ProvSpec
SYMMETRY HostSymmetry
CONSTRAINT NotRobbed
INVARIANTS
    AvailableIsClean
    TargetFitsState
PROPERTIES
    WorkIsEnded
