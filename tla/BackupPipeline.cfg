SPECIFICATION FairSpec
CONSTANTS
    Users = {u1}
    Dests = {d1}
    NoDest = NoDest
    LocalDest = d1
    Handlers = {h1}
    Tickers = {daemon}
    Daemon = daemon
    Requests <- RequestRows
    Plan <- SystemRows
    MaxConcurrent = 1
    Window = 1
    MaxJobs = 2
    MaxFaults = 1
INVARIANTS
    TypeOK OneWorkerPerSlot SlotNamesLiveWork SucceededHasManifest
    RunningWasAccepted CapRespected
PROPERTIES ClosedStaysClosed EveryBackupCloses
CHECK_DEADLOCK FALSE
