SPECIFICATION Spec
CONSTANTS
    Plugin = {p1}
    NoPlugin = NoPlugin
    PollInterval = 1
    MaxLag = 2
    MaxWrites = 2
    MaxStartFailures = 0
    MaxRestarts = 0
CHECK_DEADLOCK FALSE
INVARIANTS
    LookupFindsCounted
