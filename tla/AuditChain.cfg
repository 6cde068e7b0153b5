SPECIFICATION FairSpec
CONSTANTS
    Ids = {1, 2, 3}
    Fracs = {0, 1}
    Folded = {1}
    Retention = 1
    SweepLimit = 2
    Faulty = {"redis", "db"}
    MaxClock = 2
    MaxFaults = 1
    MaxCrashes = 1
INVARIANTS
    TypeOK
    OneRowPerEvent
    VerifyBreaksOnlyForCause
    NothingVanishes
PROPERTY
    SealedRowsAppendOnly
    UnsealedEventuallySealed
CHECK_DEADLOCK FALSE
