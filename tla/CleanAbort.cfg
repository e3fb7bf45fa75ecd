SPECIFICATION FairSpec
CONSTANTS
    StepCount = 3
    InBand = {1, 2}
    Abortable = {2}
    Reboots = {1}
    MaxCasts = 1
    MaxMismatches = 2
    Faults = {}
PROPERTY AbortTakesEffect
