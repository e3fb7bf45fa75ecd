SPECIFICATION FairSpec
CONSTANTS
    Host = {1, 2}
    MaxFaults = 2
    MaxRequests = 2
INVARIANTS
    TypeOK
    LockHasItsThread
    TakesOverServed
PROPERTIES
    Settles
