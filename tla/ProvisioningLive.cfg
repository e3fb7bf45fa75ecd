CONSTANTS
    Host = {h1}
    Node = {n1}
    Task = {t1, t2}
    NoHost = NoHost
    NoNode = NoNode
    NoTask = NoTask
    MaxAttempts = 1
    PoolSize = 1
    Faults = {}
    Requests = {"deploy", "manage", "clean", "inspect"}
    CreatedAs = {"available"}
    AutomatedClean = TRUE
    UsesInspector = TRUE
    Uncaught = {"deploying", "clean_auto", "clean_manual"}
SPECIFICATION ProvFairSpec
PROPERTIES
    WaitsEnd
    MachineIsFollowed
