SPECIFICATION FairSpec
CONSTANTS
    StepCount = 4
    InBand = {1, 2, 4}
    Abortable = {2}
    Reboots = {1}
    MaxCasts = 1
    MaxMismatches = 2
    Faults = {"lost", "uncaught"}
INVARIANTS
    TypeOK
PROPERTIES
    ImplementsCleanOrder
    AbortBetweenSteps
    CleaningEnds
