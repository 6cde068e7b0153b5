SPECIFICATION FairSpec
CONSTANTS
    Domains = {d1}
    NoRow = NoRow
    RetryBatch = 1
    MaxAsked = 2
    MaxFaults = 2
INVARIANTS TypeOK IssuedHasItsPath
PROPERTIES CertificateSettles DisabledIsRevoked HttpsComesUp
CHECK_DEADLOCK FALSE
