SPECIFICATION FairSpec
CONSTANTS
    Domains = {d1}
    Clients = {c1, c2}
    NoRow = NoRow
    QueueCap = 1
    MaxIds = 2
    MaxAsked = 4
    MaxFaults = 1
INVARIANT TypeOK
PROPERTIES HostFollowsRows QuotaSettles
CHECK_DEADLOCK FALSE
