SPECIFICATION FairSpec
CONSTANTS
    Domains = {d1}
    Ports = {p1, p2}
    NoRow = NoRow
    Slots = {k1, k2}
    MaxAsked = 2
    MaxFaults = 1
INVARIANTS TypeOK OneConverge ReservationsEnd
PROPERTIES PendingIsDeployed CrashIsNoticed
CHECK_DEADLOCK FALSE
