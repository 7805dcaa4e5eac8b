SPECIFICATION FairSpec
CONSTANTS
    Row <- Rows
    Parent <- Chain
    NoRow = "none"
    Pinned <- PinnedRows
    Subscriber = {s, f}
    Faulty = {f}
    MaxLog = 3
CHECK_DEADLOCK FALSE
INVARIANTS
    TypeOK
    LastHeardIsCurrent
    NoNewsOfOrphans
PROPERTIES
    ImplementsFeed
    Served
    StopReturns
