SPECIFICATION Spec
CONSTANTS
    Ids = {1, 2, 3}
    Fracs = {0, 1}
    Folded = {}
    Retention = 1
    SweepLimit = 2
    Faulty = {"redis", "db"}
    MaxClock = 3
    MaxFaults = 0
    MaxCrashes = 0
INVARIANT
    UntouchedChainVerifies
CHECK_DEADLOCK FALSE
