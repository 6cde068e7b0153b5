SPECIFICATION FairSpec
CONSTANTS
    Ids = {1, 2}
    Fracs = {0}
    Folded = {}
    Retention = 1
    SweepLimit = 1
    Faulty = {"db"}
    MaxClock = 1
    MaxFaults = 1
    MaxCrashes = 0
PROPERTY
    UnackedIsRedelivered
CHECK_DEADLOCK FALSE
