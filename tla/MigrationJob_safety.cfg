SPECIFICATION FairSpec
CONSTANTS
    Jobs = {j1}
    Handlers = {h1, h2}
    Shells = {"shell"}
    MaxAsked = 3
    MaxFaults = 1
INVARIANTS
    TypeOK DoneMeansEveryStageRan InFlightHasRunner
PROPERTIES
    DeletedStaysDeleted FinishedJobLosesSecret
CHECK_DEADLOCK FALSE
