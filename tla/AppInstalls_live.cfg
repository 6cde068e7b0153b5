SPECIFICATION FairSpec
CONSTANTS
    Domains = {d1, d2}
    Subs = {root, blog}
    Root = root
    Asked <- OneDocroot
    Types = {"wordpress"}
    MaxInstalls = 2
    MaxDeletes = 1
    MaxFaults = 1
    ProbeBatch = 1
    NoRow = NoRow
INVARIANTS TypeOK DatabasesAreOwned
PROPERTIES StatusSettles
CHECK_DEADLOCK FALSE
