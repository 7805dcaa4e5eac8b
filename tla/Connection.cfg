SPECIFICATION FairSpec
CONSTANTS
    Scenarios <- Every
    MaxCalls = 2
    MaxTransports = 3
    MaxReads = 2
CHECK_DEADLOCK FALSE
INVARIANTS
    TypeOK
    NoMessageAfterDisconnect
    OneCloserIsSafe
    OnConnectIsSafe
    WaitingHasOneTransport
PROPERTIES
    ConnectAnswered
    ReleasedCloses
