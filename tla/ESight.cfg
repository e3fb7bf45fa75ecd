CONSTANTS
    Process = {"p", "q"}
    Thread = {1, 2}
    MaxKeys = 2
    MaxFaults = 1
SPECIFICATION FairSpec
INVARIANTS
    TypeOK
    PasswordReadable
PROPERTY CallsRecover
