SPECIFICATION FairSpec
CONSTANTS
    Plugin = {p1, p2}
    NoPlugin = NoPlugin
    PollInterval = 1
    MaxLag = 2
    MaxWrites = 2
    MaxStartFailures = 0
    MaxRestarts = 0
CHECK_DEADLOCK FALSE
PROPERTIES
    ActiveIsRegistered
