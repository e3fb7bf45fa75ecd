SPECIFICATION FairSpec
CONSTANTS
    Host = {h1, h2}
    Mapped = {h1}
    MaxRetries = 1
    Forcing = {h1}
    MaxByHand = 1
    MaxCrashes = 1
    MaxRequests = 1
INVARIANTS
    TypeOK
    NoPendingPower
    SyncObeysRow
PROPERTIES
    ActionsEnd
    RecordConverges
