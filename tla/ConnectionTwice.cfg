SPECIFICATION Spec
CONSTANTS
    Scenarios <- Hasty
    MaxCalls = 2
    MaxTransports = 1
    MaxReads = 1
CHECK_DEADLOCK FALSE
INVARIANTS
    HandlersFindTransport
