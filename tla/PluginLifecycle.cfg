SPECIFICATION Spec
CONSTANTS
    Plugin = {p1, p2}
    NoPlugin = NoPlugin
    PollInterval = 1
    MaxLag = 2
    MaxWrites = 2
    MaxStartFailures = 1
    MaxRestarts = 1
SYMMETRY Symmetry
CHECK_DEADLOCK FALSE
INVARIANTS
    TypeOK
    WorkerIsRegistered
    OneInterpreter
    ExitAfterOnStop
    TargetAlive
    StopAfterLoad
