SPECIFICATION FairSpec
CONSTANTS
    a = a
    b = b
    NoPlugin = NoPlugin
    Boot <- TwoAtBoot
    Added = {c, d}
CHECK_DEADLOCK FALSE
INVARIANTS
    TypeOK
    RegisteredExists
    WorkLoopAfterStart
PROPERTIES
    StopEnds
    EarlyStopPasses
