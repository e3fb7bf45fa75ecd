CONSTANTS
    Host = {h1, h2}
    Node = {n1}
    Task = {t1, t2}
    NoHost = NoHost
    NoNode = NoNode
    NoTask = NoTask
    MaxAttempts = 1
    PoolSize = 1
    Faults = {"crash"}
    Requests = {"deploy"}
    CreatedAs = {"available"}
    AutomatedClean = TRUE
    UsesInspector = FALSE
    Uncaught = {}
SPECIFICATION ProvTakeoverSpec
PROPERTY DeadDeploymentsFail
