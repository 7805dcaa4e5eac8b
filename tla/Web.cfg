SPECIFICATION FairSpec
CONSTANTS
    Scripts <- Browser
    Faults = {"peer", "readTimer", "abandonedTimer", "stop_all"}
    MaxPushes = 1
CHECK_DEADLOCK FALSE
INVARIANTS
    TypeOK
    OneWrite
    RepliesInOrder
    PatientGetsReplies
    SubscriberExists
PROPERTIES
    SilentCloses
