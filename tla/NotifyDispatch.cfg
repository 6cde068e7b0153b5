SPECIFICATION FairSpec
CONSTANTS
    Channels = {c1}
    Envelopes <- Kinds
    Admins = {a1}
    BatchSize = 2
    MaxRetries = 2
    BreakerLimit = 1
    MaxEntries = 2
    MaxPatches = 1
    MaxFaults = 1
INVARIANTS TypeOK Accounted ReplayHasPayload
PROPERTIES EverySettles
CHECK_DEADLOCK FALSE
