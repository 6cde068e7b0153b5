SPECIFICATION FairSpec
CONSTANTS
    Channels = {c1}
    Envelopes <- Kinds
    Admins = {}
    BatchSize = 1
    MaxRetries = 2
    BreakerLimit = 2
    MaxEntries = 1
    MaxPatches = 0
    MaxFaults = 0
PROPERTY ReclaimedIsProcessedAgain
CHECK_DEADLOCK FALSE
